---- MODULE Spec2Model ----
(***************************************************************************)
(* Shadow tree differentiator of ReactCommon/react/renderer/mounting/      *)
(* Differentiator.cpp: TinyMap, the flattener                              *)
(* (sliceChildShadowNodeViewPairs), the reparenting side-table             *)
(* (ReparentingMetadata), the recursive differ and the public entry point  *)
(* with its pruning pass, followed by a host that applies the returned     *)
(* mutation list one instruction at a time.                                *)
(***************************************************************************)
EXTENDS Integers, Sequences, FiniteSets, TLC

VARIABLES
  oldTree,      \* the old shadow tree: present tag -> ShadowNode
  newTree,      \* the new shadow tree: present tag -> ShadowNode
  enabled,      \* enableReparentingDetection
  pc,           \* "start" | "diffed" | "mounting" | "faulted"
  raw,          \* the mutation list before the pruning pass
  mutations,    \* the mutation list (after the pruning pass once pc = "mounting")
  meta,         \* the ReparentingMetadata object of the invocation
  host,         \* the host: registry of views and one child vector per parent
  applied,      \* number of mutations of the list the host has applied
  flaws,        \* contract violations the host met while applying
  tinyMap,      \* a TinyMap driven through its public member functions
  live,         \* the pairs inserted into tinyMap and not erased since, in order
  call          \* the last member-function call of the TinyMap runs (function,
                \* key, iterator, map before) or of the ReparentingMetadata runs
                \* (function, arguments, result, metadata before, previous call)

vars == <<oldTree, newTree, enabled, pc, raw, mutations, meta, host, applied, flaws,
          tinyMap, live, call>>

-----------------------------------------------------------------------------
(* Bounds of the explored inputs *)

\* tags are 1..MaxTag; the root of both trees is tag 1
MaxTag == 4
\* at most this many tags of the new tree carry props that differ from the old ones
MaxChanged == 1

\* the reparenting inputs: trees of DeepNodes nodes with at most DeepWidth children
\* per node, rearranged by at most DeepMoves moves of a subtree
DeepNodes == 6
DeepWidth == 2
DeepMoves == 2
\* a tree diffed against itself: up to MaxRich nodes of every kind, with order
\* indices 0..MaxOrderIndex
MaxRich == 5
MaxOrderIndex == 1
\* the inputs with Hidden nodes: two trees of up to MaxHidden nodes each
MaxHidden == 4
\* the flattening inputs: trees of up to MaxFlatten nodes
MaxFlatten == 5
\* the inputs with frame origins: trees of up to MaxOffsetNodes nodes
MaxOffsetNodes == 4
\* the TinyMap runs: keys 1..MaxKey, values 1..MaxValue, and a backing vector
\* that grows to MaxVector pairs
MaxKey == 3
MaxValue == 2
MaxVector == 4
\* the ReparentingMetadata runs: tags 2..MaxMetaTag, parent tags -1 and
\* 1..MaxMetaParent, indices -1..MaxMetaIndex, and calls as long as
\* reparentingOperations_ is below MaxReparentings
MaxMetaTag == 2
MaxMetaParent == 2
MaxMetaIndex == 1
MaxReparentings == 2

\* the tags of the exhaustive inputs, and the tags of all inputs
Tags == 1..MaxTag
AllTags == 1..(IF DeepNodes > MaxTag THEN DeepNodes ELSE MaxTag)
\* the root of both trees carries the lowest tag
RootTag == CHOOSE t \in Tags : \A u \in Tags : t <= u

-----------------------------------------------------------------------------
(* Data model *)

NullNode == [tree |-> "null", tag |-> 0]

EmptyLayoutMetrics == [empty |-> TRUE, origin |-> <<0, 0>>]

Metrics(x, y) == [empty |-> FALSE, origin |-> <<x, y>>]

\* ShadowView{}: the default-constructed view
DefaultShadowView == [tag |-> -1, props |-> 0, layoutMetrics |-> EmptyLayoutMetrics]

\* a pointer to a node of one of the two trees
OldNode(tag) == [tree |-> "old", tag |-> tag]
NewNode(tag) == [tree |-> "new", tag |-> tag]

Deref(node) == IF node.tree = "old" THEN oldTree[node.tag] ELSE newTree[node.tag]

\* ShadowView(shadowNode): the projection of a node
ShadowView(node) ==
  [tag |-> node.tag, props |-> Deref(node).props,
   layoutMetrics |-> Deref(node).layoutMetrics]

PointAdd(p, q) == <<p[1] + q[1], p[2] + q[2]>>

(* ShadowViewMutation factories.  The field path is bookkeeping of the model:
   the activations of the recursive differ and the buckets through which the
   mutation reached the returned list, outermost first. *)
(* The initializer list of CreateMutation is positional: its third member is
   shadowView and its fourth is {}, and the members of the record are, in
   order, type, parentShadowView, oldChildShadowView, newChildShadowView,
   index.  The comments of lines 17-18 label the two in the other order. *)
CreateMutation(shadowView) ==
  [type |-> "Create", parentShadowView |-> DefaultShadowView,
   oldChildShadowView |-> shadowView, newChildShadowView |-> DefaultShadowView,
   index |-> -1, path |-> <<>>]

DeleteMutation(shadowView) ==
  [type |-> "Delete", parentShadowView |-> DefaultShadowView,
   oldChildShadowView |-> shadowView, newChildShadowView |-> DefaultShadowView,
   index |-> -1, path |-> <<>>]

\* a variant of InsertMutation that is one position off
InsertMutationShifted(parentShadowView, childShadowView, index) ==
  [type |-> "Insert", parentShadowView |-> parentShadowView,
   oldChildShadowView |-> DefaultShadowView, newChildShadowView |-> childShadowView,
   index |-> index + 1, path |-> <<>>]

InsertMutation(parentShadowView, childShadowView, index) ==
  [type |-> "Insert", parentShadowView |-> parentShadowView,
   oldChildShadowView |-> DefaultShadowView, newChildShadowView |-> childShadowView,
   index |-> index, path |-> <<>>]

RemoveMutation(parentShadowView, childShadowView, index) ==
  [type |-> "Remove", parentShadowView |-> parentShadowView,
   oldChildShadowView |-> childShadowView, newChildShadowView |-> DefaultShadowView,
   index |-> index, path |-> <<>>]

UpdateMutation(parentShadowView, oldChildShadowView, newChildShadowView, index) ==
  [type |-> "Update", parentShadowView |-> parentShadowView,
   oldChildShadowView |-> oldChildShadowView,
   newChildShadowView |-> newChildShadowView,
   index |-> index, path |-> <<>>]

-----------------------------------------------------------------------------
(* TinyMap: iterators are positions 1..Len(vector); 0 is nullptr *)

EmptyTinyMap == [vector |-> <<>>, numErased |-> 0, erasedAtFront |-> 0]

TinyMap_begin_(m) ==
  IF Len(m.vector) = 0 \/ Len(m.vector) = m.numErased THEN 0 ELSE 1

TinyMap_end(m) ==
  IF Len(m.vector) = 0 \/ m.numErased = Len(m.vector) THEN 0 ELSE Len(m.vector) + 1

\* a variant of TinyMap_cleanVector that also cleans when every erased pair
\* lies at the front
TinyMap_cleanVectorAtFrontToo(m, forceClean) ==
  IF (m.numErased < (Len(m.vector) \div 2) /\ ~forceClean) \/ Len(m.vector) = 0
       \/ m.numErased = 0
  THEN m
  ELSE [vector |-> SelectSeq(m.vector, LAMBDA item : item.first # 0),
        numErased |-> 0, erasedAtFront |-> 0]

TinyMap_cleanVector(m, forceClean) ==
  IF (m.numErased < (Len(m.vector) \div 2) /\ ~forceClean) \/ Len(m.vector) = 0
       \/ m.numErased = 0 \/ m.numErased = m.erasedAtFront
  THEN m
  ELSE [vector |-> IF m.numErased = Len(m.vector) THEN <<>>
                   ELSE SelectSeq(m.vector, LAMBDA item : item.first # 0),
        numErased |-> 0, erasedAtFront |-> 0]

\* the loop of find from iterator it on
RECURSIVE TinyMap_scan(_, _, _)
TinyMap_scan(m, key, it) ==
  IF it = TinyMap_end(m) THEN TinyMap_end(m)
  ELSE IF m.vector[it].first = key THEN it
  ELSE TinyMap_scan(m, key, it + 1)

\* a variant of TinyMap_findIn that starts the scan past as many pairs as
\* were erased anywhere
TinyMap_findInPastErased(c, key) ==
  [map |-> c,
   it |-> IF TinyMap_begin_(c) = 0 THEN TinyMap_end(c)
          ELSE TinyMap_scan(c, key, TinyMap_begin_(c) + c.numErased)]

\* find on the vector as cleanVector left it
TinyMap_findIn(c, key) ==
  [map |-> c,
   it |-> IF TinyMap_begin_(c) = 0 THEN TinyMap_end(c)
          ELSE TinyMap_scan(c, key, TinyMap_begin_(c) + c.erasedAtFront)]

\* find(key): the map after the call (find may compact it) and the iterator
TinyMap_find(m, key) == TinyMap_findIn(TinyMap_cleanVector(m, FALSE), key)

TinyMap_insert(m, key, value) ==
  [m EXCEPT !.vector = Append(@, [first |-> key, second |-> value])]

TinyMap_erase(m, it) ==
  [vector |-> [m.vector EXCEPT ![it].first = 0],
   numErased |-> m.numErased + 1,
   erasedAtFront |-> IF it = TinyMap_begin_(m) + m.erasedAtFront
                     THEN m.erasedAtFront + 1 ELSE m.erasedAtFront]

\* begin on the vector as cleanVector left it
TinyMap_beginIn(c) ==
  [map |-> c,
   it |-> IF TinyMap_begin_(c) # 0 THEN TinyMap_begin_(c) + c.erasedAtFront ELSE 0]

\* a variant of TinyMap_begin that does not clean the vector
TinyMap_beginUncleaned(m) == TinyMap_beginIn(m)

\* begin(): the map after the call (begin may compact it) and the iterator
TinyMap_begin(m) ==
  TinyMap_beginIn(TinyMap_cleanVector(m, m.erasedAtFront # m.numErased))

-----------------------------------------------------------------------------
(* Ordering and flattening of child lists *)

\* a variant of ANDROID: an Android build, without the Hidden check
AndroidBuild == TRUE

\* the build is not an Android build: the Hidden check is compiled in
ANDROID == FALSE

\* a variant of the comparator that also puts a pair before an equal one
shouldFirstPairComesBeforeOrWithSecondOne(lhs, rhs) ==
  Deref(lhs.shadowNode).orderIndex <= Deref(rhs.shadowNode).orderIndex

shouldFirstPairComesBeforeSecondOne(lhs, rhs) ==
  Deref(lhs.shadowNode).orderIndex < Deref(rhs.shadowNode).orderIndex

\* std::stable_sort: insertion of each pair behind the last pair that is not after it
RECURSIVE StableInsert(_, _)
StableInsert(sorted, pair) ==
  IF Len(sorted) = 0 THEN <<pair>>
  ELSE IF shouldFirstPairComesBeforeSecondOne(pair, sorted[Len(sorted)])
       THEN Append(StableInsert(SubSeq(sorted, 1, Len(sorted) - 1), pair),
                   sorted[Len(sorted)])
       ELSE Append(sorted, pair)

RECURSIVE StableSort(_, _)
StableSort(pairs, n) ==
  IF n = 0 THEN <<>> ELSE StableInsert(StableSort(pairs, n - 1), pairs[n])

reorderInPlaceIfNeeded(pairs) ==
  IF Len(pairs) < 2 THEN pairs
  ELSE IF \A i \in 1..Len(pairs) : Deref(pairs[i].shadowNode).orderIndex = 0
       THEN pairs
       ELSE StableSort(pairs, Len(pairs))

ChildAt(shadowNode, i) ==
  [tree |-> shadowNode.tree, tag |-> Deref(shadowNode).children[i]]

\* shadowView.layoutMetrics.frame.origin += layoutOffset, if the metrics are not empty
OffsetView(shadowView, layoutOffset) ==
  IF shadowView.layoutMetrics # EmptyLayoutMetrics
  THEN [shadowView EXCEPT !.layoutMetrics.origin = PointAdd(@, layoutOffset)]
  ELSE shadowView

\* a variant of ChildOrigin that hands the offset on as it is
ChildOriginUnchanged(shadowView, layoutOffset) == layoutOffset

\* origin: the offset handed to the children of a child
ChildOrigin(shadowView, layoutOffset) ==
  IF shadowView.layoutMetrics # EmptyLayoutMetrics
  THEN PointAdd(layoutOffset, shadowView.layoutMetrics.origin)
  ELSE layoutOffset

RECURSIVE sliceChildShadowNodeViewPairsRecursively(_, _, _, _)

\* a variant of SliceChild that also descends below a stacking context
SliceChildThroughStackingContexts(pairList, layoutOffset, child, pair) ==
  IF ~ANDROID /\ "Hidden" \in Deref(child).traits THEN pairList
  ELSE sliceChildShadowNodeViewPairsRecursively(
         IF "FormsView" \in Deref(child).traits
              \/ "FormsStackingContext" \in Deref(child).traits
         THEN Append(pairList, pair)
         ELSE pairList,
         ChildOrigin(ShadowView(child), layoutOffset), child, 1)

\* the body of the loop for one child: the pair list after it
SliceChild(pairList, layoutOffset, child, pair) ==
  IF ~ANDROID /\ "Hidden" \in Deref(child).traits THEN pairList
  ELSE IF "FormsStackingContext" \in Deref(child).traits THEN Append(pairList, pair)
  ELSE sliceChildShadowNodeViewPairsRecursively(
         IF "FormsView" \in Deref(child).traits THEN Append(pairList, pair)
         ELSE pairList,
         ChildOrigin(ShadowView(child), layoutOffset), child, 1)

\* the loop over shadowNode.getChildren(), from child number i on
sliceChildShadowNodeViewPairsRecursively(pairList, layoutOffset, shadowNode, i) ==
  IF i > Len(Deref(shadowNode).children) THEN pairList
  ELSE sliceChildShadowNodeViewPairsRecursively(
         SliceChild(pairList, layoutOffset, ChildAt(shadowNode, i),
                    [shadowView |-> OffsetView(ShadowView(ChildAt(shadowNode, i)),
                                               layoutOffset),
                     shadowNode |-> ChildAt(shadowNode, i)]),
         layoutOffset, shadowNode, i + 1)

\* a variant of sliceChildShadowNodeViewPairs without the early return
sliceChildShadowNodeViewPairsOfAnyNode(shadowNode) ==
  sliceChildShadowNodeViewPairsRecursively(<<>>, <<0, 0>>, shadowNode, 1)

sliceChildShadowNodeViewPairs(shadowNode) ==
  IF "FormsStackingContext" \notin Deref(shadowNode).traits
       /\ "FormsView" \in Deref(shadowNode).traits
  THEN <<>>
  ELSE sliceChildShadowNodeViewPairsRecursively(<<>>, <<0, 0>>, shadowNode, 1)

-----------------------------------------------------------------------------
(* ReparentingMetadata.  Bit sets of ShadowViewMutation::Type are sets of type
   names.  The fields ub, assertFailed, outOfBounds, nextActivation,
   activations, recursions and walks are bookkeeping of the model: whether the stray
   write of markInserted was executed, whether an assert of the decision calls
   would have failed, whether the walk read newChildPairs past its end, the
   number of activations of the recursive differ so far, the parent tag and
   the views of the two sorted lists of each activation, and the activation
   and the tag of each "Update subtrees" recursion into a matched pair, and
   the activation and the cursor positions of each interleaved walk. *)

OperationsOnTag ==
  [shouldEraseOp |-> {}, opExists |-> {}, removeInsertIndex |-> -1, parentTag |-> -1,
   oldNode |-> NullNode, newNode |-> NullNode]

ReparentingMetadata(enabledFlag) ==
  [enabled_ |-> enabledFlag, reparentingOperations_ |-> 0,
   tagsToOperations_ |-> <<>>,
   ub |-> FALSE, assertFailed |-> FALSE, outOfBounds |-> FALSE, nextActivation |-> 0,
   activations |-> <<>>, recursions |-> <<>>, walks |-> <<>>]

\* tagsToOperations_[tag] = tagOperations
PutRecord(m, tag, tagOperations) ==
  [m EXCEPT !.tagsToOperations_ =
     [t \in (DOMAIN @) \cup {tag} |-> IF t = tag THEN tagOperations ELSE @[t]]]

\* the first sighting of a tag by shouldRemoveDeleteUpdate
RecordRemoveDelete(parentTag, shadowNode, index) ==
  [OperationsOnTag EXCEPT !.removeInsertIndex = index, !.parentTag = parentTag,
                          !.opExists = {"Remove", "Delete"}, !.oldNode = shadowNode]

\* the first sighting of a tag by shouldCreateInsertUpdate
RecordCreateInsert(parentTag, shadowNode, index) ==
  [OperationsOnTag EXCEPT !.removeInsertIndex = index,
                          !.opExists = {"Create", "Insert"}, !.newNode = shadowNode]

\* the record markInserted stores for a tag without a record
RecordInserted(parentTag, shadowNode, index) ==
  [OperationsOnTag EXCEPT !.removeInsertIndex = index, !.parentTag = parentTag]

\* a variant of MatchedSameSpot that does not compare the parent tags
MatchedSameIndex(rec, type, parentTag, index) ==
  type \in rec.opExists /\ rec.removeInsertIndex = index

\* the record has the opposite operation at this index under this parent
MatchedSameSpot(rec, type, parentTag, index) ==
  type \in rec.opExists /\ rec.removeInsertIndex = index /\ rec.parentTag = parentTag

\* assert(shouldEraseOp == 0); shouldEraseOp |= bits; if (shouldEraseOp != 0) count
MarkErase(m, tag, bits) ==
  [m EXCEPT !.assertFailed = @ \/ m.tagsToOperations_[tag].shouldEraseOp # {},
            !.tagsToOperations_[tag].shouldEraseOp = @ \cup bits,
            !.reparentingOperations_ =
               IF (m.tagsToOperations_[tag].shouldEraseOp \cup bits) # {}
               THEN @ + 1 ELSE @]

\* the second sighting of a tag by shouldRemoveDeleteUpdate
SecondRemoveDelete(m, tag, rec, shouldRemove) ==
  [meta |-> MarkErase(m, tag,
              (rec.opExists \cap {"Create"})
                \cup (IF shouldRemove THEN {} ELSE rec.opExists \cap {"Insert"})),
   r |-> <<shouldRemove, FALSE, rec.newNode>>]

\* a variant of shouldRemoveDeleteUpdate that answers "do not delete" when
\* detection is disabled
shouldRemoveDeleteUpdateKeeping(m, parentTag, shadowNode, index) ==
  IF ~m.enabled_ THEN [meta |-> m, r |-> <<TRUE, FALSE, NullNode>>]
  ELSE IF shadowNode.tag \notin DOMAIN m.tagsToOperations_
  THEN [meta |-> PutRecord(m, shadowNode.tag,
                           RecordRemoveDelete(parentTag, shadowNode, index)),
        r |-> <<TRUE, TRUE, NullNode>>]
  ELSE SecondRemoveDelete(m, shadowNode.tag, m.tagsToOperations_[shadowNode.tag],
         ~MatchedSameSpot(m.tagsToOperations_[shadowNode.tag], "Insert",
                          parentTag, index))

\* returns the metadata after the call and (shouldRemove, shouldDelete, node)
shouldRemoveDeleteUpdate(m, parentTag, shadowNode, index) ==
  IF ~m.enabled_ THEN [meta |-> m, r |-> <<TRUE, TRUE, NullNode>>]
  ELSE IF shadowNode.tag \notin DOMAIN m.tagsToOperations_
  THEN [meta |-> PutRecord(m, shadowNode.tag,
                           RecordRemoveDelete(parentTag, shadowNode, index)),
        r |-> <<TRUE, TRUE, NullNode>>]
  ELSE SecondRemoveDelete(m, shadowNode.tag, m.tagsToOperations_[shadowNode.tag],
         ~MatchedSameSpot(m.tagsToOperations_[shadowNode.tag], "Insert",
                          parentTag, index))

\* the second sighting of a tag by shouldCreateInsertUpdate
SecondCreateInsert(m, tag, rec, shouldInsert) ==
  [meta |-> MarkErase(m, tag,
              (rec.opExists \cap {"Delete"})
                \cup (IF shouldInsert THEN {} ELSE rec.opExists \cap {"Remove"})),
   r |-> <<shouldInsert, FALSE, rec.oldNode>>]

\* returns the metadata after the call and (shouldInsert, shouldCreate, node)
shouldCreateInsertUpdate(m, parentTag, shadowNode, index) ==
  IF ~m.enabled_ THEN [meta |-> m, r |-> <<TRUE, TRUE, NullNode>>]
  ELSE IF shadowNode.tag \notin DOMAIN m.tagsToOperations_
  THEN [meta |-> PutRecord(m, shadowNode.tag,
                           RecordCreateInsert(parentTag, shadowNode, index)),
        r |-> <<TRUE, TRUE, NullNode>>]
  ELSE SecondCreateInsert(m, shadowNode.tag, m.tagsToOperations_[shadowNode.tag],
         ~MatchedSameSpot(m.tagsToOperations_[shadowNode.tag], "Remove",
                          parentTag, index))

\* a variant of shouldCreateUpdate that answers "do not create" when
\* detection is disabled
shouldCreateUpdateNotWhenDisabled(m, shadowNode) ==
  IF ~m.enabled_ THEN [meta |-> m, r |-> <<FALSE, NullNode>>]
  ELSE IF shadowNode.tag \notin DOMAIN m.tagsToOperations_
  THEN [meta |-> [m EXCEPT !.assertFailed = TRUE, !.ub = TRUE],
        r |-> <<TRUE, NullNode>>]
  ELSE IF "Delete" \in m.tagsToOperations_[shadowNode.tag].opExists
  THEN [meta |-> [m EXCEPT !.reparentingOperations_ = @ + 1,
                           !.tagsToOperations_[shadowNode.tag].shouldEraseOp =
                              @ \cup {"Delete"},
                           !.tagsToOperations_[shadowNode.tag].newNode = shadowNode],
        r |-> <<FALSE, m.tagsToOperations_[shadowNode.tag].oldNode>>]
  ELSE [meta |-> [m EXCEPT !.tagsToOperations_[shadowNode.tag].opExists =
                              @ \cup {"Create"}],
        r |-> <<TRUE, NullNode>>]

(* shouldCreateUpdate: returns the metadata after the call and (shouldCreate,
   node).  With no record for the tag the assert of line 297 fails and the
   release build reads through the end iterator; the model flags it and
   answers as for a fresh record. *)
shouldCreateUpdate(m, shadowNode) ==
  IF ~m.enabled_ THEN [meta |-> m, r |-> <<TRUE, NullNode>>]
  ELSE IF shadowNode.tag \notin DOMAIN m.tagsToOperations_
  THEN [meta |-> [m EXCEPT !.assertFailed = TRUE, !.ub = TRUE],
        r |-> <<TRUE, NullNode>>]
  ELSE IF "Delete" \in m.tagsToOperations_[shadowNode.tag].opExists
  THEN [meta |-> [m EXCEPT !.reparentingOperations_ = @ + 1,
                           !.tagsToOperations_[shadowNode.tag].shouldEraseOp =
                              @ \cup {"Delete"},
                           !.tagsToOperations_[shadowNode.tag].newNode = shadowNode],
        r |-> <<FALSE, m.tagsToOperations_[shadowNode.tag].oldNode>>]
  ELSE [meta |-> [m EXCEPT !.tagsToOperations_[shadowNode.tag].opExists =
                              @ \cup {"Create"}],
        r |-> <<TRUE, NullNode>>]

\* a variant of markInserted that does not ask whether detection is enabled
markInsertedWhenDisabled(m, parentTag, shadowNode, index) ==
  IF shadowNode.tag \notin DOMAIN m.tagsToOperations_
  THEN [PutRecord(m, shadowNode.tag, RecordInserted(parentTag, shadowNode, index))
        EXCEPT !.ub = TRUE]
  ELSE [m EXCEPT !.tagsToOperations_[shadowNode.tag].opExists = @ \cup {"Insert"}]

\* a variant of markInserted that stores no record for a tag without one
markInsertedNotStored(m, parentTag, shadowNode, index) ==
  IF ~m.enabled_ THEN m
  ELSE IF shadowNode.tag \notin DOMAIN m.tagsToOperations_
  THEN [m EXCEPT !.ub = TRUE]
  ELSE [m EXCEPT !.tagsToOperations_[shadowNode.tag].opExists = @ \cup {"Insert"}]

(* markInserted.  For a tag without a record the code ors the Insert bit into
   it->second with it == end(), a write outside every record, and then stores
   the local record, whose opExists is still empty. *)
markInserted(m, parentTag, shadowNode, index) ==
  IF ~m.enabled_ THEN m
  ELSE IF shadowNode.tag \notin DOMAIN m.tagsToOperations_
  THEN [PutRecord(m, shadowNode.tag, RecordInserted(parentTag, shadowNode, index))
        EXCEPT !.ub = TRUE]
  ELSE [m EXCEPT !.tagsToOperations_[shadowNode.tag].opExists = @ \cup {"Insert"}]

removeUselessRecords(m) ==
  IF ~m.enabled_ THEN m
  ELSE [m EXCEPT !.tagsToOperations_ =
          [t \in {u \in DOMAIN @ : @[u].shouldEraseOp # {}} |-> @[t]]]

-----------------------------------------------------------------------------
(* The recursive differ.  An activation carries the metadata and its seven
   mutation lists; positions of the C++ vectors count from 0, the sequences of
   the model from 1. *)

Activation(m) ==
  [meta |-> m, id |-> m.nextActivation - 1,
   createMutations |-> <<>>, deleteMutations |-> <<>>, insertMutations |-> <<>>,
   removeMutations |-> <<>>, updateMutations |-> <<>>, downwardMutations |-> <<>>,
   destructiveDownwardMutations |-> <<>>]

WithMeta(a, m) == [a EXCEPT !.meta = m]

Push(a, bucket, mutation) == [a EXCEPT ![bucket] = Append(@, mutation)]

PushIf(cond, a, bucket, mutation) == IF cond THEN Push(a, bucket, mutation) ELSE a

Reverse(s) == [i \in 1..Len(s) |-> s[Len(s) + 1 - i]]

\* the mutations of one bucket, marked with the activation and the bucket
Mark(s, id, bucket) ==
  [i \in 1..Len(s) |->
     [s[i] EXCEPT !.path = <<[activation |-> id, bucket |-> bucket]>> \o @]]

\* a variant of RemovesInOrder that keeps the order of the pushes
RemovesAsPushed(removeMutations) == removeMutations

\* removeMutations.rbegin() .. rend()
RemovesInOrder(removeMutations) == Reverse(removeMutations)

\* a variant of ConcatBuckets that puts the Inserts before the Removes
ConcatInsertsFirst(a, id) ==
  Mark(a.destructiveDownwardMutations, id, "destructiveDownward")
    \o Mark(a.updateMutations, id, "update")
    \o Mark(a.insertMutations, id, "insert")
    \o Mark(RemovesInOrder(a.removeMutations), id, "remove")
    \o Mark(a.deleteMutations, id, "delete")
    \o Mark(a.createMutations, id, "create")
    \o Mark(a.downwardMutations, id, "downward")

\* a variant of ConcatBuckets that puts the Deletes before the Removes and
\* the Inserts before the Creates
ConcatDeletesAndInsertsEarly(a, id) ==
  Mark(a.destructiveDownwardMutations, id, "destructiveDownward")
    \o Mark(a.updateMutations, id, "update")
    \o Mark(a.deleteMutations, id, "delete")
    \o Mark(RemovesInOrder(a.removeMutations), id, "remove")
    \o Mark(a.insertMutations, id, "insert")
    \o Mark(a.createMutations, id, "create")
    \o Mark(a.downwardMutations, id, "downward")

\* a variant of ConcatBuckets that puts the Creates first
ConcatCreatesFirst(a, id) ==
  Mark(a.createMutations, id, "create")
    \o Mark(a.destructiveDownwardMutations, id, "destructiveDownward")
    \o Mark(a.updateMutations, id, "update")
    \o Mark(RemovesInOrder(a.removeMutations), id, "remove")
    \o Mark(a.deleteMutations, id, "delete")
    \o Mark(a.downwardMutations, id, "downward")
    \o Mark(a.insertMutations, id, "insert")

\* "All mutations in an optimal order"
ConcatBuckets(a, id) ==
  Mark(a.destructiveDownwardMutations, id, "destructiveDownward")
    \o Mark(a.updateMutations, id, "update")
    \o Mark(RemovesInOrder(a.removeMutations), id, "remove")
    \o Mark(a.deleteMutations, id, "delete")
    \o Mark(a.createMutations, id, "create")
    \o Mark(a.downwardMutations, id, "downward")
    \o Mark(a.insertMutations, id, "insert")

RECURSIVE calculateShadowViewMutationsRec(_, _, _, _)

\* the activation after a recursive call that appended r.mutations to a bucket
AppendResult(a, bucket, r) == [a EXCEPT !.meta = r.meta, ![bucket] = @ \o r.mutations]

\* a recursive call that appends to the list named bucket
Recurse(a, bucket, parentShadowView, oldChildPairs, newChildPairs) ==
  AppendResult(a, bucket,
               calculateShadowViewMutationsRec(a.meta, parentShadowView,
                                               oldChildPairs, newChildPairs))

\* the bucket the mutations of a matched pair's subtree go to
SubtreeBucket(newGrandChildPairs) ==
  IF Len(newGrandChildPairs) # 0 THEN "downwardMutations"
  ELSE "destructiveDownwardMutations"

RecurseMatched(a, parentShadowView, oldGrandChildPairs, newGrandChildPairs) ==
  Recurse(a, SubtreeBucket(newGrandChildPairs), parentShadowView,
          oldGrandChildPairs, newGrandChildPairs)

\* bookkeeping: activation a.id recurses into the matched pair with the tag
NoteRecursion(a, tag) ==
  [a EXCEPT !.meta.recursions = Append(@, [activation |-> a.id, tag |-> tag])]

\* a variant of UpdateSubtrees that does not recurse
UpdateSubtreesSkipped(a, oldChildPair, newChildPair) == a

\* "Update subtrees" of a pair present on both sides
UpdateSubtrees(a, oldChildPair, newChildPair) ==
  RecurseMatched(NoteRecursion(a, oldChildPair.shadowView.tag), oldChildPair.shadowView,
                 sliceChildShadowNodeViewPairs(oldChildPair.shadowNode),
                 sliceChildShadowNodeViewPairs(newChildPair.shadowNode))

\* a variant of UpdateIfChanged that does not compare the views
UpdateAlways(a, parentShadowView, oldView, newView, index) ==
  Push(a, "updateMutations", UpdateMutation(parentShadowView, oldView, newView, index))

\* an Update, if the views differ
UpdateIfChanged(a, parentShadowView, oldView, newView, index) ==
  PushIf(oldView # newView, a, "updateMutations",
         UpdateMutation(parentShadowView, oldView, newView, index))

\* the Update of a node the side-table saw in the new tree
UpdateFromNewTreeNode(a, parentShadowView, oldView, newTreeNode) ==
  IF newTreeNode # NullNode
  THEN UpdateIfChanged(a, parentShadowView, oldView, ShadowView(newTreeNode), -1)
  ELSE a

\* the Update of a node the side-table saw in the old tree
UpdateFromOldTreeNode(a, parentShadowView, oldTreeNode, newView) ==
  IF oldTreeNode # NullNode
  THEN UpdateIfChanged(a, parentShadowView, ShadowView(oldTreeNode), newView, -1)
  ELSE a

\* Stage 1: the common prefix; returns the activation and the index it stopped at
RECURSIVE Stage1(_, _, _, _, _)
Stage1(a, parentShadowView, oldChildPairs, newChildPairs, index) ==
  IF index < Len(oldChildPairs) /\ index < Len(newChildPairs)
  THEN
    IF oldChildPairs[index + 1].shadowView.tag # newChildPairs[index + 1].shadowView.tag
    THEN [a |-> a, index |-> index]
    ELSE Stage1(UpdateSubtrees(
                  UpdateIfChanged(a, parentShadowView,
                                  oldChildPairs[index + 1].shadowView,
                                  newChildPairs[index + 1].shadowView, index),
                  oldChildPairs[index + 1], newChildPairs[index + 1]),
                parentShadowView, oldChildPairs, newChildPairs, index + 1)
  ELSE [a |-> a, index |-> index]

\* the body of the loop of Branch 2 for one old pair, d being the decision
Branch2Step(a, parentShadowView, oldChildPair, index, d) ==
  Recurse(
    UpdateFromNewTreeNode(
      PushIf(d.r[1],
             PushIf(d.r[2], WithMeta(a, d.meta), "deleteMutations",
                    DeleteMutation(oldChildPair.shadowView)),
             "removeMutations",
             RemoveMutation(parentShadowView, oldChildPair.shadowView, index)),
      parentShadowView, oldChildPair.shadowView, d.r[3]),
    "destructiveDownwardMutations", oldChildPair.shadowView,
    sliceChildShadowNodeViewPairs(oldChildPair.shadowNode), <<>>)

\* Branch 2: the new list is exhausted, the rest of the old list goes
RECURSIVE Branch2(_, _, _, _)
Branch2(a, parentShadowView, oldChildPairs, index) ==
  IF index >= Len(oldChildPairs) THEN a
  ELSE Branch2(
         Branch2Step(a, parentShadowView, oldChildPairs[index + 1], index,
                     shouldRemoveDeleteUpdate(a.meta, parentShadowView.tag,
                                              oldChildPairs[index + 1].shadowNode,
                                              index)),
         parentShadowView, oldChildPairs, index + 1)

\* the body of the loop of Branch 3 for one new pair, d being the decision
Branch3Step(a, parentShadowView, newChildPair, index, d) ==
  Recurse(
    UpdateFromOldTreeNode(
      PushIf(d.r[2],
             PushIf(d.r[1], WithMeta(a, d.meta), "insertMutations",
                    InsertMutation(parentShadowView, newChildPair.shadowView, index)),
             "createMutations", CreateMutation(newChildPair.shadowView)),
      parentShadowView, d.r[3], newChildPair.shadowView),
    "downwardMutations", newChildPair.shadowView, <<>>,
    sliceChildShadowNodeViewPairs(newChildPair.shadowNode))

\* Branch 3: the old list is exhausted, the rest of the new list comes
RECURSIVE Branch3(_, _, _, _)
Branch3(a, parentShadowView, newChildPairs, index) ==
  IF index >= Len(newChildPairs) THEN a
  ELSE Branch3(
         Branch3Step(a, parentShadowView, newChildPairs[index + 1], index,
                     shouldCreateInsertUpdate(a.meta, parentShadowView.tag,
                                              newChildPairs[index + 1].shadowNode,
                                              index)),
         parentShadowView, newChildPairs, index + 1)

\* newRemainingPairs: every pair of the new list from position index on
RECURSIVE CollectRemaining(_, _, _)
CollectRemaining(map, newChildPairs, index) ==
  IF index >= Len(newChildPairs) THEN map
  ELSE CollectRemaining(
         TinyMap_insert(map, newChildPairs[index + 1].shadowView.tag, index + 1),
         newChildPairs, index + 1)

\* the cursors and maps of the interleaved walk
WalkState(newChildPairs, lastIndexAfterFirstStage) ==
  [oldIndex |-> lastIndexAfterFirstStage, newIndex |-> lastIndexAfterFirstStage,
   newRemainingPairs |-> CollectRemaining(EmptyTinyMap, newChildPairs,
                                          lastIndexAfterFirstStage),
   newInsertedPairs |-> EmptyTinyMap, trail |-> <<>>]

\* the value of the variable index inside the walk: where the collecting loop left it
IndexInWalk(newChildPairs) == Len(newChildPairs)

\* "Remove from newRemainingPairs": erase what find found
EraseFound(f) == IF f.it # TinyMap_end(f.map) THEN TinyMap_erase(f.map, f.it) ELSE f.map

\* Branch 5: both cursors point to the same tag
Branch5(a, parentShadowView, oldChildPairs, newChildPairs, w) ==
  [a |-> UpdateSubtrees(
           UpdateIfChanged(a, parentShadowView,
                           oldChildPairs[w.oldIndex + 1].shadowView,
                           newChildPairs[w.newIndex + 1].shadowView,
                           IndexInWalk(newChildPairs)),
           oldChildPairs[w.oldIndex + 1], newChildPairs[w.newIndex + 1]),
   w |-> [w EXCEPT !.newRemainingPairs =
                      EraseFound(TinyMap_find(@, oldChildPairs[w.oldIndex + 1]
                                                   .shadowView.tag)),
                   !.newIndex = @ + 1, !.oldIndex = @ + 1]]

\* Branch 6: the old tag was already inserted at its new position
Branch6(a, parentShadowView, oldChildPair, newChildPair, indexInWalk, w, f) ==
  [a |-> UpdateSubtrees(
           UpdateIfChanged(
             Push(a, "removeMutations",
                  RemoveMutation(parentShadowView, oldChildPair.shadowView,
                                 w.oldIndex)),
             parentShadowView, oldChildPair.shadowView, newChildPair.shadowView,
             indexInWalk),
           oldChildPair, newChildPair),
   w |-> [w EXCEPT !.newInsertedPairs = TinyMap_erase(f.map, f.it),
                   !.oldIndex = @ + 1]]

\* the emissions of Branch 8 for one old pair, d being the decision
Branch8Step(a, parentShadowView, oldChildPair, oldIndex, d) ==
  Recurse(
    UpdateFromNewTreeNode(
      PushIf(d.r[2],
             Push(WithMeta(a, d.meta), "removeMutations",
                  RemoveMutation(parentShadowView, oldChildPair.shadowView, oldIndex)),
             "deleteMutations", DeleteMutation(oldChildPair.shadowView)),
      parentShadowView, oldChildPair.shadowView, d.r[3]),
    "destructiveDownwardMutations", oldChildPair.shadowView,
    sliceChildShadowNodeViewPairs(oldChildPair.shadowNode), <<>>)

\* Branch 8: the old tag is not in the rest of the new list
Branch8(a, parentShadowView, oldChildPairs, w) ==
  [a |-> Branch8Step(a, parentShadowView, oldChildPairs[w.oldIndex + 1], w.oldIndex,
                     shouldRemoveDeleteUpdate(a.meta, -1,
                                              oldChildPairs[w.oldIndex + 1].shadowNode,
                                              -1)),
   w |-> [w EXCEPT !.oldIndex = @ + 1]]

(* Branch 9: insert the pair under the new cursor.  newChildPairs[newIndex] with
   the new list exhausted is a read past the end of the vector: the model
   flags it and ends the walk. *)
Branch9(a, parentShadowView, oldChildPairs, newChildPairs, w) ==
  IF w.newIndex >= Len(newChildPairs)
  THEN [a |-> [a EXCEPT !.meta.outOfBounds = TRUE],
        w |-> [w EXCEPT !.oldIndex = Len(oldChildPairs)]]
  ELSE
    [a |-> Push([a EXCEPT !.meta = markInserted(@, parentShadowView.tag,
                                     newChildPairs[w.newIndex + 1].shadowNode,
                                     w.newIndex)],
                "insertMutations",
                InsertMutation(parentShadowView,
                               newChildPairs[w.newIndex + 1].shadowView, w.newIndex)),
     w |-> [w EXCEPT !.newInsertedPairs =
                       TinyMap_insert(@, newChildPairs[w.newIndex + 1].shadowView.tag,
                                      w.newIndex + 1),
                     !.newIndex = @ + 1]]

\* the old tag was not inserted; fr is what newRemainingPairs.find(oldTag) gave
NotInserted(a, parentShadowView, oldChildPairs, newChildPairs, w, fr) ==
  IF fr.it = TinyMap_end(fr.map)
  THEN Branch8(a, parentShadowView, oldChildPairs,
               [w EXCEPT !.newRemainingPairs = fr.map])
  ELSE Branch9(a, parentShadowView, oldChildPairs, newChildPairs,
               [w EXCEPT !.newRemainingPairs = fr.map])

\* a variant of HaveOldPair that does not ask whether the old tag was inserted
HaveOldPairUninserted(a, parentShadowView, oldChildPairs, newChildPairs, w, fi) ==
  NotInserted(a, parentShadowView, oldChildPairs, newChildPairs,
              [w EXCEPT !.newInsertedPairs = fi.map],
              TinyMap_find(w.newRemainingPairs,
                           oldChildPairs[w.oldIndex + 1].shadowView.tag))

\* "if (haveOldPair)": fi is what newInsertedPairs.find(oldTag) gave
HaveOldPair(a, parentShadowView, oldChildPairs, newChildPairs, w, fi) ==
  IF fi.it # TinyMap_end(fi.map)
  THEN Branch6(a, parentShadowView, oldChildPairs[w.oldIndex + 1],
               newChildPairs[fi.map.vector[fi.it].second],
               IndexInWalk(newChildPairs), w, fi)
  ELSE NotInserted(a, parentShadowView, oldChildPairs, newChildPairs,
                   [w EXCEPT !.newInsertedPairs = fi.map],
                   TinyMap_find(w.newRemainingPairs,
                                oldChildPairs[w.oldIndex + 1].shadowView.tag))

\* one iteration of the while loop of the walk
WalkStep(a, parentShadowView, oldChildPairs, newChildPairs, w) ==
  IF w.newIndex < Len(newChildPairs) /\ w.oldIndex < Len(oldChildPairs)
       /\ newChildPairs[w.newIndex + 1].shadowView.tag
            = oldChildPairs[w.oldIndex + 1].shadowView.tag
  THEN Branch5(a, parentShadowView, oldChildPairs, newChildPairs, w)
  ELSE IF w.oldIndex < Len(oldChildPairs)
  THEN HaveOldPair(a, parentShadowView, oldChildPairs, newChildPairs, w,
                   TinyMap_find(w.newInsertedPairs,
                                oldChildPairs[w.oldIndex + 1].shadowView.tag))
  ELSE Branch9(a, parentShadowView, oldChildPairs, newChildPairs, w)

RECURSIVE Walk(_, _, _, _, _)

WalkOn(s, parentShadowView, oldChildPairs, newChildPairs) ==
  Walk(s.a, parentShadowView, oldChildPairs, newChildPairs, s.w)

\* bookkeeping: the cursors at the start of an iteration of the walk
Trailed(w) == [w EXCEPT !.trail = Append(@, <<w.oldIndex, w.newIndex>>)]

\* bookkeeping: the walk of activation k.a.id is over, with these cursors at
\* the start of its iterations and at its end
NoteWalk(k) ==
  [k EXCEPT !.a.meta.walks =
     Append(@, [activation |-> k.a.id,
                trail |-> Append(k.w.trail, <<k.w.oldIndex, k.w.newIndex>>)])]

\* the while loop of the walk
Walk(a, parentShadowView, oldChildPairs, newChildPairs, w) ==
  IF w.newIndex < Len(newChildPairs) \/ w.oldIndex < Len(oldChildPairs)
  THEN WalkOn(WalkStep(a, parentShadowView, oldChildPairs, newChildPairs, Trailed(w)),
              parentShadowView, oldChildPairs, newChildPairs)
  ELSE [a |-> a, w |-> w]

\* the body of the create sweep for one inserted pair, d being the decision
SweepStep(a, parentShadowView, newChildPair, d) ==
  Recurse(
    UpdateFromOldTreeNode(
      PushIf(d.r[1], WithMeta(a, d.meta), "createMutations",
             CreateMutation(newChildPair.shadowView)),
      parentShadowView, d.r[2], newChildPair.shadowView),
    "downwardMutations", newChildPair.shadowView, <<>>,
    sliceChildShadowNodeViewPairs(newChildPair.shadowNode))

\* "Final step: generate Create instructions for new nodes", from iterator it on
RECURSIVE CreateSweep(_, _, _, _, _)
CreateSweep(a, parentShadowView, newChildPairs, inserted, it) ==
  IF it = TinyMap_end(inserted) THEN a
  ELSE IF inserted.vector[it].first = 0
  THEN CreateSweep(a, parentShadowView, newChildPairs, inserted, it + 1)
  ELSE CreateSweep(
         SweepStep(a, parentShadowView, newChildPairs[inserted.vector[it].second],
                   shouldCreateUpdate(
                     a.meta, newChildPairs[inserted.vector[it].second].shadowNode)),
         parentShadowView, newChildPairs, inserted, it + 1)

SweepFrom(a, parentShadowView, newChildPairs, b) ==
  CreateSweep(a, parentShadowView, newChildPairs, b.map, b.it)

SweepAfter(k, parentShadowView, newChildPairs) ==
  SweepFrom(k.a, parentShadowView, newChildPairs,
            TinyMap_begin(k.w.newInsertedPairs))

\* the interleaved walk followed by the create sweep
WalkAndSweep(a, parentShadowView, oldChildPairs, newChildPairs, index) ==
  SweepAfter(NoteWalk(Walk(a, parentShadowView, oldChildPairs, newChildPairs,
                           WalkState(newChildPairs, index))),
             parentShadowView, newChildPairs)

\* a variant of AfterStage1 in which Branch 3 falls through to the walk
AfterStage1FallThrough(s, parentShadowView, oldChildPairs, newChildPairs) ==
  IF s.index = Len(newChildPairs)
  THEN Branch2(s.a, parentShadowView, oldChildPairs, s.index)
  ELSE IF s.index = Len(oldChildPairs)
  THEN WalkAndSweep(Branch3(s.a, parentShadowView, newChildPairs, s.index),
                    parentShadowView, oldChildPairs, newChildPairs, s.index)
  ELSE WalkAndSweep(s.a, parentShadowView, oldChildPairs, newChildPairs, s.index)

\* after Stage 1: one of the two fast paths or the interleaved walk
AfterStage1(s, parentShadowView, oldChildPairs, newChildPairs) ==
  IF s.index = Len(newChildPairs)
  THEN Branch2(s.a, parentShadowView, oldChildPairs, s.index)
  ELSE IF s.index = Len(oldChildPairs)
  THEN Branch3(s.a, parentShadowView, newChildPairs, s.index)
  ELSE WalkAndSweep(s.a, parentShadowView, oldChildPairs, newChildPairs, s.index)

\* what an activation hands back: its mutations in order and the metadata
Returned(a, id) == [mutations |-> ConcatBuckets(a, id), meta |-> a.meta]

\* the views of the pairs of a list
ViewsOf(pairs) == [i \in 1..Len(pairs) |-> pairs[i].shadowView]

\* bookkeeping: one more activation, on these two sorted lists
Entered(m, parentShadowView, oldChildPairs, newChildPairs) ==
  [m EXCEPT !.nextActivation = @ + 1,
            !.activations = Append(@, [parent |-> parentShadowView.tag,
                                       old |-> ViewsOf(oldChildPairs),
                                       new |-> ViewsOf(newChildPairs)])]

\* an activation on the two sorted lists
Activate(m, parentShadowView, oldChildPairs, newChildPairs) ==
  Returned(
    AfterStage1(
      Stage1(Activation(Entered(m, parentShadowView, oldChildPairs, newChildPairs)),
             parentShadowView,
             oldChildPairs, newChildPairs, 0),
      parentShadowView, oldChildPairs, newChildPairs),
    m.nextActivation)

(* calculateShadowViewMutations(mutations, reparentingMetadata, parentShadowView,
   oldChildPairs, newChildPairs): returns the mutations it appends and the
   metadata after the call *)
calculateShadowViewMutationsRec(m, parentShadowView, oldChildPairs, newChildPairs) ==
  IF Len(oldChildPairs) = 0 /\ Len(newChildPairs) = 0
  THEN [mutations |-> <<>>, meta |-> m]
  ELSE Activate(m, parentShadowView, reorderInPlaceIfNeeded(oldChildPairs),
                reorderInPlaceIfNeeded(newChildPairs))

-----------------------------------------------------------------------------
(* The public entry point *)

\* the tag the pruning pass looks a mutation up by
PruneTag(mutation) ==
  IF mutation.type \in {"Insert", "Create"} THEN mutation.newChildShadowView.tag
  ELSE mutation.oldChildShadowView.tag

\* shouldEraseOp &= ~type, and the record goes once nothing is left to erase
ClearBit(m, tag, type) ==
  IF m.tagsToOperations_[tag].shouldEraseOp \ {type} = {}
  THEN [m EXCEPT !.tagsToOperations_ = [t \in (DOMAIN @) \ {tag} |-> @[t]],
                 !.reparentingOperations_ = @ - 1]
  ELSE [m EXCEPT !.tagsToOperations_[tag].shouldEraseOp = @ \ {type}]

\* the predicate of remove_if on one mutation: the metadata after it and its answer
PrunePredicate(m, mutation) ==
  IF m.reparentingOperations_ = 0 THEN [meta |-> m, erase |-> FALSE]
  ELSE IF PruneTag(mutation) \in DOMAIN m.tagsToOperations_
  THEN [meta |-> ClearBit(m, PruneTag(mutation), mutation.type),
        erase |-> mutation.type \in m.tagsToOperations_[PruneTag(mutation)].shouldEraseOp]
  ELSE [meta |-> m, erase |-> FALSE]

RECURSIVE RemoveIf(_, _, _, _)

RemoveIfOn(p, list, i, out) ==
  RemoveIf(p.meta, list, i + 1, IF p.erase THEN out ELSE Append(out, list[i]))

\* mutations.erase(std::remove_if(...)): the list from position i on, kept in out
RemoveIf(m, list, i, out) ==
  IF i > Len(list) THEN [mutations |-> out, meta |-> m]
  ELSE RemoveIfOn(PrunePredicate(m, list[i]), list, i, out)

\* "Remove instructions obviated by reparenting"
PruningPass(m, list, enableReparentingDetection) ==
  IF m.reparentingOperations_ > 0 /\ enableReparentingDetection
  THEN RemoveIf(removeUselessRecords(m), list, 1, <<>>)
  ELSE [mutations |-> list, meta |-> m]

\* a variant of RootUpdate that emits the Update whether or not the views differ
RootUpdateAlways(oldRootShadowView, newRootShadowView) ==
  <<UpdateMutation(DefaultShadowView, oldRootShadowView, newRootShadowView, -1)>>

\* the Update of the root, if its view changed
RootUpdate(oldRootShadowView, newRootShadowView) ==
  IF oldRootShadowView # newRootShadowView
  THEN <<UpdateMutation(DefaultShadowView, oldRootShadowView, newRootShadowView, -1)>>
  ELSE <<>>

Prepend(first, r) == [mutations |-> first \o r.mutations, meta |-> r.meta]

\* the root Update and the recursive diff of the roots' children
DiffRoots(oldRootShadowNode, newRootShadowNode, enableReparentingDetection) ==
  Prepend(RootUpdate(ShadowView(oldRootShadowNode), ShadowView(newRootShadowNode)),
          calculateShadowViewMutationsRec(
            ReparentingMetadata(enableReparentingDetection),
            ShadowView(oldRootShadowNode),
            sliceChildShadowNodeViewPairs(oldRootShadowNode),
            sliceChildShadowNodeViewPairs(newRootShadowNode)))

PruneResult(d, enableReparentingDetection) ==
  PruningPass(d.meta, d.mutations, enableReparentingDetection)

calculateShadowViewMutations(oldRootShadowNode, newRootShadowNode, enableReparentingDetection) ==
  PruneResult(DiffRoots(oldRootShadowNode, newRootShadowNode,
                        enableReparentingDetection),
              enableReparentingDetection)

-----------------------------------------------------------------------------
(* The host: a registry of views keyed by tag and one child vector per parent *)

EmptyHost ==
  [registered |-> {}, views |-> [t \in AllTags |-> DefaultShadowView],
   children |-> [t \in AllTags |-> <<>>]]

TagsOf(pairs) == [i \in 1..Len(pairs) |-> pairs[i].shadowView.tag]

RECURSIVE MountChildren(_, _, _)

\* a view and its child vector enter the host, then its children do
MountPairs(h, shadowView, pairs) ==
  MountChildren([h EXCEPT !.registered = @ \cup {shadowView.tag},
                          !.views[shadowView.tag] = shadowView,
                          !.children[shadowView.tag] = TagsOf(pairs)],
                pairs, 1)

\* the host tree of the flattened view tree below a node
MountView(h, shadowView, shadowNode) ==
  MountPairs(h, shadowView,
             reorderInPlaceIfNeeded(sliceChildShadowNodeViewPairs(shadowNode)))

MountChildren(h, pairs, i) ==
  IF i > Len(pairs) THEN h
  ELSE MountChildren(MountView(h, pairs[i].shadowView, pairs[i].shadowNode), pairs, i + 1)

HostOf(rootNode) == MountView(EmptyHost, ShadowView(rootNode), rootNode)

ParentsOf(h, tag) == {p \in AllTags : \E i \in 1..Len(h.children[p]) : h.children[p][i] = tag}

InsertAt(s, i, e) == SubSeq(s, 1, i) \o <<e>> \o SubSeq(s, i + 1, Len(s))
RemoveAt(s, i) == SubSeq(s, 1, i) \o SubSeq(s, i + 2, Len(s))

\* what goes wrong when the host applies a mutation in its current state
FlawsOf(h, mutation) ==
  CASE mutation.type = "Create" ->
         IF mutation.newChildShadowView.tag \notin AllTags THEN {"CreateDefault"}
         ELSE IF mutation.newChildShadowView.tag \in h.registered
         THEN {"CreateExisting"} ELSE {}
    [] mutation.type = "Delete" ->
         (IF mutation.oldChildShadowView.tag \notin h.registered
          THEN {"DeleteMissing"} ELSE {})
           \cup (IF ParentsOf(h, mutation.oldChildShadowView.tag) # {}
                 THEN {"DeleteAttached"} ELSE {})
    [] mutation.type = "Insert" ->
         (IF mutation.index < 0
               \/ mutation.index > Len(h.children[mutation.parentShadowView.tag])
          THEN {"InsertIndex"} ELSE {})
           \cup (IF ParentsOf(h, mutation.newChildShadowView.tag) # {}
                 THEN {"InsertAttached"} ELSE {})
           \cup (IF mutation.newChildShadowView.tag \notin h.registered
                 THEN {"InsertUnregistered"} ELSE {})
    [] mutation.type = "Remove" ->
         IF mutation.index < 0
              \/ mutation.index >= Len(h.children[mutation.parentShadowView.tag])
         THEN {"RemoveIndex"}
         ELSE IF h.children[mutation.parentShadowView.tag][mutation.index + 1]
                   # mutation.oldChildShadowView.tag
         THEN {"RemoveMismatch"} ELSE {}
    [] mutation.type = "Update" ->
         IF mutation.oldChildShadowView.tag \notin h.registered
         THEN {"UpdateMissing"} ELSE {}

\* the host after the mutation
ApplyMutation(h, mutation) ==
  CASE mutation.type = "Create" ->
         IF mutation.newChildShadowView.tag \notin AllTags THEN h
         ELSE [h EXCEPT !.registered = @ \cup {mutation.newChildShadowView.tag},
                        !.views[mutation.newChildShadowView.tag] =
                           mutation.newChildShadowView]
    [] mutation.type = "Delete" ->
         [h EXCEPT !.registered = @ \ {mutation.oldChildShadowView.tag},
                   !.views[mutation.oldChildShadowView.tag] = DefaultShadowView]
    [] mutation.type = "Insert" ->
         IF mutation.index < 0
              \/ mutation.index > Len(h.children[mutation.parentShadowView.tag])
         THEN h
         ELSE [h EXCEPT !.children[mutation.parentShadowView.tag] =
                           InsertAt(@, mutation.index, mutation.newChildShadowView.tag)]
    [] mutation.type = "Remove" ->
         IF mutation.index < 0
              \/ mutation.index >= Len(h.children[mutation.parentShadowView.tag])
         THEN h
         ELSE [h EXCEPT !.children[mutation.parentShadowView.tag] =
                           RemoveAt(@, mutation.index)]
    [] mutation.type = "Update" ->
         [h EXCEPT !.views[mutation.oldChildShadowView.tag] =
                      mutation.newChildShadowView]

-----------------------------------------------------------------------------
(* Input trees *)

Range(f) == {f[x] : x \in DOMAIN f}

\* pre-order depth sequences of the ordered trees with n nodes
DepthSeqs(n) ==
  {d \in [1..n -> 0..(n - 1)] :
     d[1] = 0 /\ \A t \in 2..n : d[t] >= 1 /\ d[t] <= d[t - 1] + 1}

\* the pre-order positions of the children of the node at position i
ChildPositions(d, i) ==
  SelectSeq([k \in 1..Len(d) |-> k],
            LAMBDA j : j > i /\ d[j] = d[i] + 1 /\ \A k \in (i + 1)..(j - 1) : d[k] > d[i])

\* the pre-order listings of a tag set, the root first
Orders(S) ==
  {o \in [1..Cardinality(S) -> S] :
     o[1] = RootTag /\ \A i, j \in 1..Cardinality(S) : o[i] = o[j] => i = j}

ViewTraits == {"FormsView", "FormsStackingContext"}

PositionOf(ord, t) == CHOOSE k \in 1..Len(ord) : ord[k] = t

\* the tags at the given pre-order positions
TagsAt(ord, positions) == [k \in 1..Len(positions) |-> ord[positions[k]]]

\* a tree of views with shape d, its nodes tagged ord in pre-order; the tags
\* in changed carry props 1, the others props 0
PlainTree(d, ord, changed) ==
  [t \in Range(ord) |->
     [children |-> TagsAt(ord, ChildPositions(d, PositionOf(ord, t))),
      traits |-> ViewTraits, orderIndex |-> 0,
      props |-> IF t \in changed THEN 1 ELSE 0,
      layoutMetrics |-> Metrics(0, 0)]]

\* old trees: tags 1..n in pre-order (every old tree is one of these up to renaming)
OldTrees ==
  UNION {{PlainTree(d, [i \in 1..n |-> i], {}) : d \in DepthSeqs(n)} : n \in 1..MaxTag}

PresentSets == {S \in SUBSET Tags : RootTag \in S}

NewTreesOn(S) ==
  UNION {{PlainTree(d, o, c) : d \in DepthSeqs(Cardinality(S)), o \in Orders(S)} :
           c \in {c \in SUBSET S : Cardinality(c) <= MaxChanged}}

NewTrees == UNION {NewTreesOn(S) : S \in PresentSets}

\* the tags of the subtree of t
RECURSIVE SubtreeTags(_, _)
SubtreeTags(tree, t) ==
  {t} \cup UNION {SubtreeTags(tree, c) : c \in Range(tree[t].children)}

Without(children, t) == SelectSeq(children, LAMBDA c : c # t)

\* the tree with the subtree of t moved to be the last child of p
MoveSubtree(tree, t, p) ==
  [u \in DOMAIN tree |->
     [tree[u] EXCEPT !.children =
        IF u = p THEN Append(Without(@, t), t) ELSE Without(@, t)]]

\* the trees one move of a subtree away
Moves(tree) ==
  {MoveSubtree(tree, tp[1], tp[2]) :
     tp \in {x \in (DOMAIN tree \ {RootTag}) \X (DOMAIN tree) :
               x[2] \notin SubtreeTags(tree, x[1])}}

\* the trees at most k moves away from one of trees
RECURSIVE MovedUpTo(_, _)
MovedUpTo(trees, k) ==
  IF k = 0 THEN trees
  ELSE MovedUpTo(trees \cup UNION {Moves(x) : x \in trees}, k - 1)

\* old trees of the reparenting inputs
DeepOldTrees ==
  {PlainTree(d, [i \in 1..DeepNodes |-> i], {}) :
     d \in {e \in DepthSeqs(DeepNodes) :
              \A i \in 1..DeepNodes : Len(ChildPositions(e, i)) <= DeepWidth}}

-----------------------------------------------------------------------------
(* The state machine: one invocation of the differ, then the host applies the
   returned list *)

(* a tree over the node kinds: nodes that form a view and a stacking context,
   that form a view only, that form neither (flattened wrappers), and Hidden
   nodes, with order indices up to MaxOrderIndex *)
NodeKinds == {ViewTraits, {"FormsView"}, {}, ViewTraits \cup {"Hidden"}}

RichTree(d, kind, order) ==
  [t \in 1..Len(d) |->
     [children |-> TagsAt([i \in 1..Len(d) |-> i], ChildPositions(d, t)),
      traits |-> IF t = RootTag THEN ViewTraits ELSE kind[t],
      orderIndex |-> IF t = RootTag THEN 0 ELSE order[t],
      props |-> 0,
      layoutMetrics |-> Metrics(1, 2)]]

\* the pairs of trees explored: every pair of small trees, and the deep trees
\* with the trees a few moves away
\* no call on tinyMap yet
NoCall == [op |-> "none", key |-> 0, it |-> 0, before |-> EmptyTinyMap]

\* the TinyMap of the member-function runs is left alone by the diff
TinyMapUnused == tinyMap = EmptyTinyMap /\ live = <<>> /\ call = NoCall

Init ==
  /\ \/ oldTree \in OldTrees /\ newTree \in NewTrees
     \/ oldTree \in DeepOldTrees /\ newTree \in MovedUpTo({oldTree}, DeepMoves)
  /\ enabled \in BOOLEAN
  /\ pc = "start"
  /\ raw = <<>>
  /\ mutations = <<>>
  /\ meta = ReparentingMetadata(enabled)
  /\ host = EmptyHost
  /\ applied = 0
  /\ flaws = {}
  /\ TinyMapUnused

(* the outcome d of the recursive diff: the call goes on to the pruning pass,
   or, if the stray write of markInserted was executed, the process may fault *)
DifferOutcome(d) ==
  /\ raw' = d.mutations
  /\ mutations' = d.mutations
  /\ meta' = d.meta
  /\ \/ pc' = "diffed"
     \/ d.meta.ub /\ pc' = "faulted"

\* lines 909-927: the recursive diff of the two trees
Differ ==
  /\ pc = "start"
  /\ DifferOutcome(DiffRoots(OldNode(RootTag), NewNode(RootTag), enabled))
  /\ host' = HostOf(OldNode(RootTag))
  /\ UNCHANGED <<oldTree, newTree, enabled, applied, flaws, tinyMap, live, call>>

PruneOutcome(p) ==
  /\ mutations' = p.mutations
  /\ meta' = p.meta

\* lines 929-967: the pruning pass and the return of the list
Prune ==
  /\ pc = "diffed"
  /\ PruneOutcome(PruningPass(meta, mutations, enabled))
  /\ pc' = "mounting"
  /\ UNCHANGED <<oldTree, newTree, enabled, raw, host, applied, flaws, tinyMap, live, call>>

\* the host applies the next mutation of the returned list
HostApply ==
  /\ pc = "mounting"
  /\ applied < Len(mutations)
  /\ host' = ApplyMutation(host, mutations[applied + 1])
  /\ flaws' = flaws \cup FlawsOf(host, mutations[applied + 1])
  /\ applied' = applied + 1
  /\ UNCHANGED <<oldTree, newTree, enabled, pc, raw, mutations, meta, tinyMap, live, call>>

Next == Differ \/ Prune \/ HostApply

Spec == Init /\ [][Next]_vars

\* a tree diffed against itself
InitSame ==
  /\ \E n \in 1..MaxRich :
       \E d \in DepthSeqs(n), kind \in [2..n -> NodeKinds],
          order \in [2..n -> 0..MaxOrderIndex] :
         oldTree = RichTree(d, kind, order)
  /\ newTree = oldTree
  /\ enabled \in BOOLEAN
  /\ pc = "start"
  /\ raw = <<>>
  /\ mutations = <<>>
  /\ meta = ReparentingMetadata(enabled)
  /\ host = EmptyHost
  /\ applied = 0
  /\ flaws = {}
  /\ TinyMapUnused

\* the differ's part of an invocation
NextSame == Differ \/ Prune

SpecSame == InitSame /\ [][NextSame]_vars

\* the node kinds of the trees with Hidden nodes
HiddenKinds == {ViewTraits, {}, ViewTraits \cup {"Hidden"}}

\* the tree with props 1 at the tags of changed
WithProps(tree, changed) ==
  [t \in DOMAIN tree |-> [tree[t] EXCEPT !.props = IF t \in changed THEN 1 ELSE 0]]

\* two trees whose shapes, node kinds and props differ
InitHidden ==
  /\ \E n \in 1..MaxHidden :
       \E d \in DepthSeqs(n), kind \in [2..n -> HiddenKinds] :
         oldTree = RichTree(d, kind, [t \in 2..n |-> 0])
  /\ \E n \in 1..MaxHidden :
       \E d \in DepthSeqs(n), kind \in [2..n -> HiddenKinds],
          changed \in {c \in SUBSET (1..n) : Cardinality(c) <= MaxChanged} :
         newTree = WithProps(RichTree(d, kind, [t \in 2..n |-> 0]), changed)
  /\ enabled \in BOOLEAN
  /\ pc = "start"
  /\ raw = <<>>
  /\ mutations = <<>>
  /\ meta = ReparentingMetadata(enabled)
  /\ host = EmptyHost
  /\ applied = 0
  /\ flaws = {}
  /\ TinyMapUnused

SpecHidden == InitHidden /\ [][NextSame]_vars

\* the node kinds of the flattening inputs: NodeKinds and nodes that form a
\* stacking context without forming a view
FlattenKinds == NodeKinds \cup {{"FormsStackingContext"}}

\* a tree over the flattening kinds, diffed against itself
InitFlatten ==
  /\ \E n \in 1..MaxFlatten :
       \E d \in DepthSeqs(n), kind \in [2..n -> FlattenKinds] :
         oldTree = RichTree(d, kind, [t \in 2..n |-> 0])
  /\ newTree = oldTree
  /\ enabled \in BOOLEAN
  /\ pc = "start"
  /\ raw = <<>>
  /\ mutations = <<>>
  /\ meta = ReparentingMetadata(enabled)
  /\ host = EmptyHost
  /\ applied = 0
  /\ flaws = {}
  /\ TinyMapUnused

SpecFlatten == InitFlatten /\ [][NextSame]_vars

\* the node kinds and layout metrics of the inputs with frame origins
OffsetKinds == {ViewTraits, {"FormsView"}, {}}
OffsetMetrics == {EmptyLayoutMetrics, Metrics(1, 2), Metrics(3, 1)}

\* the tree with the given layout metrics at its nodes other than the root
WithMetrics(tree, metrics) ==
  [t \in DOMAIN tree |->
     [tree[t] EXCEPT !.layoutMetrics = IF t = RootTag THEN @ ELSE metrics[t]]]

\* a tree whose nodes have frame origins or empty layout metrics, diffed
\* against itself
InitOffsets ==
  /\ \E n \in 1..MaxOffsetNodes :
       \E d \in DepthSeqs(n), kind \in [2..n -> OffsetKinds],
          metrics \in [2..n -> OffsetMetrics] :
         oldTree = WithMetrics(RichTree(d, kind, [t \in 2..n |-> 0]), metrics)
  /\ newTree = oldTree
  /\ enabled \in BOOLEAN
  /\ pc = "start"
  /\ raw = <<>>
  /\ mutations = <<>>
  /\ meta = ReparentingMetadata(enabled)
  /\ host = EmptyHost
  /\ applied = 0
  /\ flaws = {}
  /\ TinyMapUnused

SpecOffsets == InitOffsets /\ [][NextSame]_vars

-----------------------------------------------------------------------------
(* TinyMap driven through its public member functions, as the differ uses
   them: non-zero keys, no key inserted while it is live, erase only on the
   iterator the preceding find returned *)

\* the position in the sequence of the pair with the key, 0 if there is none
PlaceOfKey(pairs, key) ==
  IF \E i \in 1..Len(pairs) : pairs[i].first = key
  THEN CHOOSE i \in 1..Len(pairs) : pairs[i].first = key
  ELSE 0

\* the sequence without its element at place i
WithoutPlace(pairs, i) ==
  SubSeq(pairs, 1, i - 1) \o SubSeq(pairs, i + 1, Len(pairs))

\* the diff does not run
DifferUnused ==
  /\ oldTree \in {RichTree(d, [t \in 2..1 |-> {}], [t \in 2..1 |-> 0]) : d \in DepthSeqs(1)}
  /\ newTree = oldTree
  /\ pc = "start"
  /\ raw = <<>>
  /\ mutations = <<>>
  /\ host = EmptyHost
  /\ applied = 0
  /\ flaws = {}

InitTinyMap ==
  /\ DifferUnused
  /\ enabled = FALSE
  /\ meta = ReparentingMetadata(FALSE)
  /\ tinyMap = EmptyTinyMap
  /\ live = <<>>
  /\ call = NoCall

\* insert({key, value})
Insert(key, value) ==
  /\ Len(tinyMap.vector) < MaxVector
  /\ PlaceOfKey(live, key) = 0
  /\ tinyMap' = TinyMap_insert(tinyMap, key, value)
  /\ live' = Append(live, [first |-> key, second |-> value])
  /\ call' = [op |-> "insert", key |-> key, it |-> 0, before |-> tinyMap]

FindOutcome(key, f) ==
  /\ tinyMap' = f.map
  /\ call' = [op |-> "find", key |-> key, it |-> f.it, before |-> tinyMap]

\* find(key)
Find(key) ==
  /\ FindOutcome(key, TinyMap_find(tinyMap, key))
  /\ UNCHANGED live

\* erase(it) on the iterator the find just before it returned
Erase ==
  /\ call.op = "find"
  /\ call.it # TinyMap_end(tinyMap)
  /\ tinyMap' = TinyMap_erase(tinyMap, call.it)
  /\ live' = WithoutPlace(live, PlaceOfKey(live, call.key))
  /\ call' = [op |-> "erase", key |-> call.key, it |-> call.it, before |-> tinyMap]

BeginOutcome(b) ==
  /\ tinyMap' = b.map
  /\ call' = [op |-> "begin", key |-> 0, it |-> b.it, before |-> tinyMap]

\* begin()
Begin ==
  /\ BeginOutcome(TinyMap_begin(tinyMap))
  /\ UNCHANGED live

TinyMapCall ==
  \/ \E key \in 1..MaxKey, value \in 1..MaxValue : Insert(key, value)
  \/ \E key \in 1..MaxKey : Find(key)
  \/ Erase
  \/ Begin

NextTinyMap ==
  /\ TinyMapCall
  /\ UNCHANGED <<oldTree, newTree, enabled, pc, raw, mutations, meta, host, applied, flaws>>

SpecTinyMap == InitTinyMap /\ [][NextTinyMap]_vars

-----------------------------------------------------------------------------
(* ReparentingMetadata driven through its member functions: the decision
   calls and markInserted on nodes with tags 2..MaxMetaTag, under parent tags
   -1 and 1..MaxMetaParent at indices -1..MaxMetaIndex.  The asserts of the
   calls are kept: no decision call on a record with shouldEraseOp set, no
   shouldCreateUpdate on a tag without a record. *)

InitMetadata ==
  /\ DifferUnused
  /\ enabled \in BOOLEAN
  /\ meta = ReparentingMetadata(enabled)
  /\ TinyMapUnused

\* the function and the arguments of the last call, and whether it was the
\* first sighting of the tag
LastCall ==
  IF call.op = "none"
  THEN [op |-> "none", parentTag |-> -1, tag |-> 0, index |-> -1, first |-> FALSE]
  ELSE [op |-> call.op, parentTag |-> call.parentTag, tag |-> call.tag,
        index |-> call.index, first |-> call.tag \notin DOMAIN call.before.tagsToOperations_]

\* the metadata has no record of the tag, or one with nothing marked
Unmarked(tag) ==
  tag \in DOMAIN meta.tagsToOperations_ => meta.tagsToOperations_[tag].shouldEraseOp = {}

\* the call op(parentTag, node of tag, index) returned d.r and left d.meta
Called(op, parentTag, tag, index, d) ==
  /\ meta.reparentingOperations_ < MaxReparentings
  /\ meta' = d.meta
  /\ call' = [op |-> op, parentTag |-> parentTag, tag |-> tag, index |-> index,
              r |-> d.r, before |-> meta, previous |-> LastCall]

CallShouldRemoveDeleteUpdate(parentTag, tag, index) ==
  /\ pc = "start"
  /\ Unmarked(tag)
  /\ Called("shouldRemoveDeleteUpdate", parentTag, tag, index,
            shouldRemoveDeleteUpdate(meta, parentTag, OldNode(tag), index))
  /\ UNCHANGED pc

CallShouldCreateInsertUpdate(parentTag, tag, index) ==
  /\ pc = "start"
  /\ Unmarked(tag)
  /\ Called("shouldCreateInsertUpdate", parentTag, tag, index,
            shouldCreateInsertUpdate(meta, parentTag, NewNode(tag), index))
  /\ UNCHANGED pc

CallShouldCreateUpdate(tag) ==
  /\ pc = "start"
  /\ enabled => tag \in DOMAIN meta.tagsToOperations_
  /\ Called("shouldCreateUpdate", -1, tag, -1, shouldCreateUpdate(meta, NewNode(tag)))
  /\ UNCHANGED pc

\* markInserted; after the stray write of a first sighting the process may
\* go on or fault
CallMarkInserted(parentTag, tag, index) ==
  /\ pc = "start"
  /\ Called("markInserted", parentTag, tag, index,
            [meta |-> markInserted(meta, parentTag, NewNode(tag), index), r |-> <<>>])
  /\ \/ pc' = pc
     \/ /\ enabled
        /\ tag \notin DOMAIN meta.tagsToOperations_
        /\ pc' = "faulted"

NextMetadata ==
  /\ \E parentTag \in {-1} \cup 1..MaxMetaParent, tag \in 2..MaxMetaTag,
        index \in -1..MaxMetaIndex :
       \/ CallShouldRemoveDeleteUpdate(parentTag, tag, index)
       \/ CallShouldCreateInsertUpdate(parentTag, tag, index)
       \/ CallShouldCreateUpdate(tag)
       \/ CallMarkInserted(parentTag, tag, index)
  /\ UNCHANGED <<oldTree, newTree, enabled, raw, mutations, host, applied, flaws,
                 tinyMap, live>>

SpecMetadata == InitMetadata /\ [][NextMetadata]_vars

-----------------------------------------------------------------------------
(* What the properties below speak of *)

\* the flattened old and new view trees, as host trees
OldHost == HostOf(OldNode(RootTag))
NewHost == HostOf(NewNode(RootTag))

\* the returned list has been applied completely
Done == pc = "mounting" /\ applied = Len(mutations)

\* the same registered views, with equal values and equal child vectors
HostMatches(h, target) ==
  /\ h.registered = target.registered
  /\ \A t \in target.registered :
       h.views[t] = target.views[t] /\ h.children[t] = target.children[t]

\* tags with a view in both flattened trees
Survivors == OldHost.registered \cap NewHost.registered

\* survivors whose parent in the new tree is not their parent in the old tree
Moved == {t \in Survivors : ParentsOf(OldHost, t) # ParentsOf(NewHost, t)}

\* the positions of the list with a mutation of this type for this tag
\* the tag of the view a mutation is about
ViewTag(mutation) ==
  IF mutation.newChildShadowView # DefaultShadowView
  THEN mutation.newChildShadowView.tag ELSE mutation.oldChildShadowView.tag

Positions(list, type, tag) ==
  {i \in 1..Len(list) : list[i].type = type /\ ViewTag(list[i]) = tag}

Has(list, type, tag) == Positions(list, type, tag) # {}

\* the list has a mutation of this type for this tag under a parent of the set
HasUnder(list, type, tag, parents) ==
  \E i \in Positions(list, type, tag) : list[i].parentShadowView.tag \in parents

BucketOrder ==
  <<"destructiveDownward", "update", "remove", "delete", "create", "downward", "insert">>

BucketRank(bucket) == CHOOSE k \in 1..Len(BucketOrder) : BucketOrder[k] = bucket

\* no activation both mutations come from put the first in a later bucket
InBucketOrder(first, second) ==
  \A k \in 1..Len(first.path) :
    (k <= Len(second.path) /\ first.path[k].activation = second.path[k].activation)
      => BucketRank(first.path[k].bucket) <= BucketRank(second.path[k].bucket)

RECURSIVE IsSubsequence(_, _)
IsSubsequence(s, t) ==
  IF Len(s) = 0 THEN TRUE
  ELSE IF Len(t) = 0 THEN FALSE
  ELSE IF Head(s) = Head(t) THEN IsSubsequence(Tail(s), Tail(t))
  ELSE IsSubsequence(s, Tail(t))

-----------------------------------------------------------------------------
(* Properties *)

(* C1: with reparenting detection enabled, applying the returned list in order
   to a host holding the flattened old tree ends in the flattened new tree:
   the same views, with the same values and the same children in the same
   order under every parent. *)
C1_ApplyAndCompare == (enabled /\ Done) => HostMatches(host, NewHost)

(* C2: with reparenting detection disabled, applying the returned list ends in
   the flattened new tree, and on the way no Create is applied to a tag whose
   view exists (a surviving view destroyed by a later Delete is missing from
   the final host). *)
C2_DisabledStillCorrect ==
  (~enabled /\ pc = "mounting")
    => /\ "CreateExisting" \notin flaws
       /\ Done => HostMatches(host, NewHost)

(* C3: diffing a tree against itself returns an empty list, before and after
   the pruning pass, with reparenting detection enabled or disabled. *)
C3_NullDiff ==
  (newTree = oldTree /\ pc \in {"diffed", "mounting"})
    => raw = <<>> /\ mutations = <<>>

\* a returned self-diff of a tree with a reordered sibling list, a flattened
\* wrapper and a Hidden node
C3_Witness ==
  /\ newTree = oldTree /\ pc = "mounting" /\ enabled
  /\ \E t \in DOMAIN oldTree :
       Len(sliceChildShadowNodeViewPairs(OldNode(t))) >= 2
         /\ reorderInPlaceIfNeeded(sliceChildShadowNodeViewPairs(OldNode(t)))
              # sliceChildShadowNodeViewPairs(OldNode(t))
  /\ \E t \in DOMAIN oldTree : oldTree[t].traits = {} /\ oldTree[t].children # <<>>
  /\ \E t \in DOMAIN oldTree : "Hidden" \in oldTree[t].traits

(* C4: with reparenting detection enabled, the returned list has no Create and
   no Delete for a tag with a view in both flattened trees, and a tag that
   changed parent has a Remove under its old parent and an Insert under its
   new parent. *)
C4_NoCreateDeleteForSurvivors ==
  (enabled /\ pc = "mounting")
    => /\ \A t \in Survivors :
            ~Has(mutations, "Create", t) /\ ~Has(mutations, "Delete", t)
       /\ \A t \in Moved :
            /\ HasUnder(mutations, "Remove", t, ParentsOf(OldHost, t))
            /\ HasUnder(mutations, "Insert", t, ParentsOf(NewHost, t))

\* a moved tag whose Create or Delete the differ suppressed
DetectedAsMoved(t) ==
  t \in Moved /\ (~Has(mutations, "Create", t) \/ ~Has(mutations, "Delete", t))

(* C5: with reparenting detection enabled, a node detected as moved between
   parents has an Update carrying its old and its new view in the returned
   list if the two views differ, and no Update if they are equal. *)
C5_UpdateForMoved ==
  (enabled /\ pc = "mounting")
    => \A t \in AllTags :
         DetectedAsMoved(t)
           => IF OldHost.views[t] # NewHost.views[t]
              THEN \E i \in Positions(mutations, "Update", t) :
                     /\ mutations[i].oldChildShadowView = OldHost.views[t]
                     /\ mutations[i].newChildShadowView = NewHost.views[t]
              ELSE ~Has(mutations, "Update", t)

(* C6: every Insert of the returned list has an index between 0 and the
   length of its parent's child vector at the moment the host applies it. *)
C6_InsertIndexValid == "InsertIndex" \notin flaws

\* an Insert was applied at a position past the front, after a Remove under
\* the same parent
C6_Witness ==
  /\ pc = "mounting"
  /\ \E i, j \in 1..applied :
       /\ j < i
       /\ mutations[j].type = "Remove" /\ mutations[i].type = "Insert"
       /\ mutations[j].parentShadowView.tag = mutations[i].parentShadowView.tag
       /\ mutations[i].index >= 1

(* C7: every Remove of the returned list finds, at the moment the host applies
   it, the child with the tag of oldChildShadowView at position index of the
   parent's child vector. *)
C7_RemoveFindsChild == "RemoveIndex" \notin flaws /\ "RemoveMismatch" \notin flaws

\* the Removes of a list that share a parent tag have strictly decreasing indices
RemovesDecrease(list) ==
  \A i, j \in 1..Len(list) :
    (/\ i < j
     /\ list[i].type = "Remove" /\ list[j].type = "Remove"
     /\ list[i].parentShadowView.tag = list[j].parentShadowView.tag)
      => list[i].index > list[j].index

(* C8: the Removes of the returned list that share a parent tag appear in
   strictly decreasing index order, before and after the pruning pass. *)
C8_RemovesReverseOrder == RemovesDecrease(raw) /\ RemovesDecrease(mutations)

\* a pruned list with two Removes under one parent
C8_Witness ==
  /\ pc = "mounting" /\ Len(mutations) < Len(raw)
  /\ \E i, j \in 1..Len(mutations) :
       /\ i < j
       /\ mutations[i].type = "Remove" /\ mutations[j].type = "Remove"
       /\ mutations[i].parentShadowView.tag = mutations[j].parentShadowView.tag

(* C9: the mutations an activation of the recursive differ contributes appear
   in the order destructiveDownward, update, remove, delete, create, downward,
   insert, and the pruning pass keeps the relative order of what it keeps. *)
C9_BucketOrder ==
  /\ \A i, j \in 1..Len(raw) : i < j => InBucketOrder(raw[i], raw[j])
  /\ IsSubsequence(mutations, raw)

\* a pruned list in which a nested activation contributed to two buckets
C9_Witness ==
  /\ pc = "mounting" /\ Len(mutations) < Len(raw) /\ Len(mutations) > 0
  /\ \E i, j \in 1..Len(raw) :
       /\ i < j
       /\ Len(raw[i].path) >= 2 /\ Len(raw[j].path) >= 2
       /\ raw[i].path[2].activation = raw[j].path[2].activation
       /\ raw[i].path[2].bucket # raw[j].path[2].bucket

(* C10: for every tag the returned list has at most one Create, one Delete,
   one Insert and one Remove. *)
C10_AtMostOnePerTag ==
  pc = "mounting"
    => \A t \in AllTags : \A type \in {"Create", "Delete", "Insert", "Remove"} :
         Cardinality(Positions(mutations, type, t)) <= 1

\* a returned list with a Create, a Delete, an Insert and a Remove for one tag
C10_Witness ==
  /\ pc = "mounting"
  /\ \E t \in AllTags : \A type \in {"Create", "Delete", "Insert", "Remove"} :
       Has(mutations, type, t)

\* the types of the mutations of a list
TypesOf(list) == {list[i].type : i \in 1..Len(list)}

\* the list returned for the two trees with reparenting detection disabled
ReturnedDisabled ==
  calculateShadowViewMutations(OldNode(RootTag), NewNode(RootTag), FALSE).mutations

\* the list has an Update of this tag from this view to this view
HasUpdate(list, tag, oldView, newView) ==
  \E i \in Positions(list, "Update", tag) :
    list[i].oldChildShadowView = oldView /\ list[i].newChildShadowView = newView

(* C11: for the same two trees, every mutation type that occurs in the list
   returned with reparenting detection enabled occurs in the list returned
   with detection disabled, Update included. *)
C11_EnabledTypesWithinDisabled ==
  (enabled /\ pc = "mounting") => TypesOf(mutations) \subseteq TypesOf(ReturnedDisabled)

(* C11, amended: every type other than Update that occurs in the list returned
   with detection enabled occurs in the list returned with detection disabled,
   and an Update of the enabled list that the disabled list lacks is for a tag
   with a node in both trees. *)
C11_EnabledTypesButUpdateWithinDisabled ==
  (enabled /\ pc = "mounting")
    => /\ (TypesOf(mutations) \ {"Update"}) \subseteq TypesOf(ReturnedDisabled)
       /\ \A i \in 1..Len(mutations) :
            (/\ mutations[i].type = "Update"
             /\ ~HasUpdate(ReturnedDisabled, ViewTag(mutations[i]),
                           mutations[i].oldChildShadowView,
                           mutations[i].newChildShadowView))
              => ViewTag(mutations[i]) \in (DOMAIN oldTree \cap DOMAIN newTree)

\* an enabled list with an Update where the disabled list has none, and with
\* another type besides
C11_Witness ==
  /\ enabled /\ pc = "mounting"
  /\ "Update" \in TypesOf(mutations) /\ "Update" \notin TypesOf(ReturnedDisabled)
  /\ "Remove" \in TypesOf(mutations)

\* the non-root nodes of a tree that carry Hidden, with their subtrees
HiddenSubtrees(tree) ==
  UNION {SubtreeTags(tree, t) :
           t \in {u \in DOMAIN tree \ {RootTag} : "Hidden" \in tree[u].traits}}

\* no flattened list of a node outside the Hidden subtrees has a tag of them
NoHiddenListed(tree, node(_)) ==
  \A t \in DOMAIN tree \ HiddenSubtrees(tree) :
    Range(TagsOf(sliceChildShadowNodeViewPairs(node(t)))) \cap HiddenSubtrees(tree) = {}

\* no mutation of the list is about a view of the Hidden subtrees of the tree
\* its view is from: the old tree for Remove and Delete, the new tree for
\* Create and Insert, both for Update
NoHiddenChild(list) ==
  \A i \in 1..Len(list) :
    /\ list[i].type \in {"Remove", "Delete", "Update"}
         => ViewTag(list[i]) \notin HiddenSubtrees(oldTree)
    /\ list[i].type \in {"Create", "Insert", "Update"}
         => ViewTag(list[i]) \notin HiddenSubtrees(newTree)

(* C12: on a build that is not an Android build, a non-root node carrying
   Hidden and every node of its subtree is in no flattened child list of the
   walk and is the old or new child of no mutation, before and after the
   pruning pass; so a node Hidden in both trees contributes no mutation even
   if its subtree changed. *)
C12_HiddenSubtreesInvisible ==
  /\ NoHiddenListed(oldTree, OldNode) /\ NoHiddenListed(newTree, NewNode)
  /\ NoHiddenChild(raw) /\ NoHiddenChild(mutations)
  /\ \A i \in 1..Len(mutations) :
       ViewTag(mutations[i]) \notin HiddenSubtrees(oldTree) \cap HiddenSubtrees(newTree)

\* a returned, non-empty list for two trees with a node Hidden in both whose
\* subtree has a node that differs between the trees
C12_Witness ==
  /\ pc = "mounting" /\ Len(mutations) > 0
  /\ \E h \in (DOMAIN oldTree \cap DOMAIN newTree) \ {RootTag} :
       /\ "Hidden" \in oldTree[h].traits /\ "Hidden" \in newTree[h].traits
       /\ \E c \in SubtreeTags(oldTree, h) \ {h} :
            c \notin DOMAIN newTree \/ oldTree[c] # newTree[c]

OrderIndexOf(pair) == Deref(pair.shadowNode).orderIndex

\* the position of a pair in a list that has it
PlaceOf(list, pair) == CHOOSE k \in 1..Len(list) : list[k] = pair

\* sorted has the pairs of pairs in ascending orderIndex, pairs of equal
\* orderIndex in the order they have in pairs
IsStablySorted(pairs, sorted) ==
  /\ Len(sorted) = Len(pairs)
  /\ \A i \in 1..Len(pairs) : \E k \in 1..Len(sorted) : sorted[k] = pairs[i]
  /\ \A i, j \in 1..Len(sorted) :
       i < j => OrderIndexOf(sorted[i]) <= OrderIndexOf(sorted[j])
  /\ \A i, j \in 1..Len(pairs) :
       (i < j /\ OrderIndexOf(pairs[i]) = OrderIndexOf(pairs[j]))
         => PlaceOf(sorted, pairs[i]) < PlaceOf(sorted, pairs[j])

\* a list the sort has to leave as it is
NoReorderNeeded(pairs) ==
  Len(pairs) < 2 \/ \A i \in 1..Len(pairs) : OrderIndexOf(pairs[i]) = 0

OrderedAsStated(pairs) ==
  /\ IsStablySorted(pairs, reorderInPlaceIfNeeded(pairs))
  /\ NoReorderNeeded(pairs) => reorderInPlaceIfNeeded(pairs) = pairs

(* C13: the differ orders every flattened child list by ascending orderIndex
   with a stable sort: pairs of equal orderIndex keep their flattened order,
   and a list with fewer than two pairs or with all order indices zero is
   left as it is; a tree with non-zero order indices diffed against itself
   returns no mutation. *)
C13_StableOrderByOrderIndex ==
  /\ \A t \in DOMAIN oldTree : OrderedAsStated(sliceChildShadowNodeViewPairs(OldNode(t)))
  /\ (/\ newTree = oldTree /\ pc \in {"diffed", "mounting"}
      /\ \E t \in DOMAIN oldTree : oldTree[t].orderIndex # 0)
       => mutations = <<>>

\* a returned self-diff of a tree with a child list whose sort moves a pair
\* past two pairs of equal orderIndex
C13_Witness ==
  /\ newTree = oldTree /\ pc = "mounting"
  /\ \E t \in DOMAIN oldTree :
       /\ reorderInPlaceIfNeeded(sliceChildShadowNodeViewPairs(OldNode(t)))
            # sliceChildShadowNodeViewPairs(OldNode(t))
       /\ \E i, j \in 1..Len(sliceChildShadowNodeViewPairs(OldNode(t))) :
            /\ i < j
            /\ OrderIndexOf(sliceChildShadowNodeViewPairs(OldNode(t))[i])
                 = OrderIndexOf(sliceChildShadowNodeViewPairs(OldNode(t))[j])
            /\ OrderIndexOf(sliceChildShadowNodeViewPairs(OldNode(t))[i]) # 0

\* a mutation without the bookkeeping of the model
Bare(mutation) ==
  [type |-> mutation.type, parentShadowView |-> mutation.parentShadowView,
   oldChildShadowView |-> mutation.oldChildShadowView,
   newChildShadowView |-> mutation.newChildShadowView, index |-> mutation.index]

BareList(list) == [i \in 1..Len(list) |-> Bare(list[i])]

\* the Update of the root the claim describes
ExpectedRootUpdate ==
  Bare(UpdateMutation(DefaultShadowView, ShadowView(OldNode(RootTag)),
                      ShadowView(NewNode(RootTag)), -1))

(* C14: the returned list has an Update of the root tag if and only if the
   views of the two roots differ; it is then the first element of the list,
   the only Update of the root, and carries a default parentShadowView, the
   old and the new root view and index -1. *)
C14_RootUpdate ==
  pc = "mounting"
    => IF ShadowView(OldNode(RootTag)) # ShadowView(NewNode(RootTag))
       THEN /\ Len(mutations) >= 1 /\ Bare(mutations[1]) = ExpectedRootUpdate
            /\ Positions(mutations, "Update", RootTag) = {1}
       ELSE ~Has(mutations, "Update", RootTag)

\* a returned list that starts with the root Update, followed by mutations of
\* the children, the pruning pass having dropped some
C14_Witness ==
  /\ pc = "mounting"
  /\ ShadowView(OldNode(RootTag)) # ShadowView(NewNode(RootTag))
  /\ Len(mutations) >= 2 /\ Len(mutations) < Len(raw)
  /\ mutations[1].type = "Update"

\* the view is the view of one of the two nodes with its tag
IsViewOfParent(view) ==
  \/ view.tag \in DOMAIN oldTree /\ view = ShadowView(OldNode(view.tag))
  \/ view.tag \in DOMAIN newTree /\ view = ShadowView(NewNode(view.tag))

IsOldView(view) == view.tag \in DOMAIN oldTree /\ view = ShadowView(OldNode(view.tag))
IsNewView(view) == view.tag \in DOMAIN newTree /\ view = ShadowView(NewNode(view.tag))

\* the child has this slot in the (sorted, flattened) child list of the node
IsSlotOf(index, node, tag) ==
  /\ index >= 0
  /\ index < Len(reorderInPlaceIfNeeded(sliceChildShadowNodeViewPairs(node)))
  /\ reorderInPlaceIfNeeded(sliceChildShadowNodeViewPairs(node))[index + 1].shadowView.tag = tag

CreateAsStated(mutation) ==
  /\ mutation.parentShadowView = DefaultShadowView
  /\ mutation.oldChildShadowView = DefaultShadowView
  /\ IsNewView(mutation.newChildShadowView)
  /\ mutation.index = -1

DeleteAsStated(mutation) ==
  /\ mutation.parentShadowView = DefaultShadowView
  /\ IsOldView(mutation.oldChildShadowView)
  /\ mutation.newChildShadowView = DefaultShadowView
  /\ mutation.index = -1

InsertAsStated(mutation) ==
  /\ IsViewOfParent(mutation.parentShadowView)
  /\ mutation.oldChildShadowView = DefaultShadowView
  /\ IsNewView(mutation.newChildShadowView)
  /\ IsSlotOf(mutation.index, NewNode(mutation.parentShadowView.tag),
              mutation.newChildShadowView.tag)

RemoveAsStated(mutation) ==
  /\ IsViewOfParent(mutation.parentShadowView)
  /\ IsOldView(mutation.oldChildShadowView)
  /\ mutation.newChildShadowView = DefaultShadowView
  /\ IsSlotOf(mutation.index, OldNode(mutation.parentShadowView.tag),
              mutation.oldChildShadowView.tag)

UpdateAsStated(mutation) ==
  /\ mutation.parentShadowView = DefaultShadowView
       \/ IsViewOfParent(mutation.parentShadowView)
  /\ IsOldView(mutation.oldChildShadowView)
  /\ IsNewView(mutation.newChildShadowView)
  /\ mutation.oldChildShadowView.tag = mutation.newChildShadowView.tag

(* C15: every mutation of the returned list has the fields of its type: a
   Create a default parent, a default old child, the new view and index -1; a
   Delete a default parent, the old view, a default new child and index -1;
   an Insert the parent, a default old child, the new view and the child's
   slot; a Remove the parent, the old view, a default new child and the
   child's slot; an Update the parent, the old view and the new view. *)
C15_FieldsPerType ==
  pc = "mounting"
    => \A i \in 1..Len(mutations) :
         CASE mutations[i].type = "Create" -> CreateAsStated(mutations[i])
           [] mutations[i].type = "Delete" -> DeleteAsStated(mutations[i])
           [] mutations[i].type = "Insert" -> InsertAsStated(mutations[i])
           [] mutations[i].type = "Remove" -> RemoveAsStated(mutations[i])
           [] mutations[i].type = "Update" -> UpdateAsStated(mutations[i])

\* the index is the slot of the tag under the parent in the old or the new tree
IsSlotUnder(index, parentTag, tag) ==
  \/ parentTag \in DOMAIN oldTree /\ IsSlotOf(index, OldNode(parentTag), tag)
  \/ parentTag \in DOMAIN newTree /\ IsSlotOf(index, NewNode(parentTag), tag)

(* C16: every Update of the returned list has index -1 or the slot of the
   updated child in the sorted, flattened child list of its parent, whichever
   branch of the differ emitted it. *)
C16_UpdateIndexIsSlot ==
  pc = "mounting"
    => \A i \in 1..Len(mutations) :
         mutations[i].type = "Update"
           => \/ mutations[i].index = -1
              \/ IsSlotUnder(mutations[i].index, mutations[i].parentShadowView.tag,
                             ViewTag(mutations[i]))

\* a root with three children, and the same tree with the last child moved
\* to the front
LastToFrontOld == PlainTree(<<0, 1, 1, 1>>, <<1, 2, 3, 4>>, {})
LastToFrontNew == PlainTree(<<0, 1, 1, 1>>, <<1, 4, 2, 3>>, {})

LastToFrontReturned ==
  oldTree = LastToFrontOld /\ newTree = LastToFrontNew /\ pc = "mounting"

(* C17: for old children [A, B, C] and new children [C, A, B] of the root,
   all views unchanged, the returned list is exactly Insert(R, C, 0) followed
   by Remove(R, C, 3). *)
C17_InsertThenRemoveAtThree ==
  LastToFrontReturned
    => BareList(mutations)
         = <<Bare(InsertMutation(ShadowView(OldNode(1)), ShadowView(NewNode(4)), 0)),
             Bare(RemoveMutation(ShadowView(OldNode(1)), ShadowView(OldNode(4)), 3))>>

(* C17, amended: for old children [A, B, C] and new children [C, A, B] of the
   root, all views unchanged, the returned list is exactly Remove(R, C, 2)
   followed by Insert(R, C, 0), with reparenting detection enabled or
   disabled. *)
C17_RemoveAtTwoThenInsert ==
  LastToFrontReturned
    => BareList(mutations)
         = <<Bare(RemoveMutation(ShadowView(OldNode(1)), ShadowView(OldNode(4)), 2)),
             Bare(InsertMutation(ShadowView(OldNode(1)), ShadowView(NewNode(4)), 0))>>

\* the list for the moved last child has been returned, detection enabled
C17_Witness == LastToFrontReturned /\ enabled /\ Len(mutations) = 2

\* type, parent tag, tag of the view and index of a mutation
Brief(mutation) ==
  <<mutation.type, mutation.parentShadowView.tag, ViewTag(mutation), mutation.index>>

BriefList(list) == [i \in 1..Len(list) |-> Brief(list[i])]

\* every mutation of the first type for a tag precedes every mutation of the
\* second type for the same tag
Precedes(list, first, second) ==
  \A t \in AllTags :
    \A i \in Positions(list, first, t), j \in Positions(list, second, t) : i < j

\* big is small with the leaf c appended to the children of p, all else equal
IsAppended(small, big, p, c) ==
  /\ c \notin DOMAIN small /\ DOMAIN big = DOMAIN small \cup {c}
  /\ p \in DOMAIN small
  /\ big[c].children = <<>>
  /\ big[p] = [small[p] EXCEPT !.children = Append(@, c)]
  /\ \A t \in DOMAIN small \ {p} : big[t] = small[t]

(* C18: in the returned list the Create of a tag precedes the Insert of the
   tag and the Remove of a tag precedes the Delete of the tag; a leaf appended
   to the children of a parent yields exactly Create(child), Insert(parent,
   child, last index), and a trailing leaf dropped from the children of a
   parent yields exactly Remove(parent, child, index), Delete(child). *)
C18_CreateBeforeInsertRemoveBeforeDelete ==
  pc = "mounting"
    => /\ Precedes(mutations, "Create", "Insert")
       /\ Precedes(mutations, "Remove", "Delete")
       /\ \A p, c \in AllTags :
            IsAppended(oldTree, newTree, p, c)
              => BriefList(mutations)
                   = << <<"Create", DefaultShadowView.tag, c, -1>>,
                        <<"Insert", p, c, Len(oldTree[p].children)>> >>
       /\ \A p, c \in AllTags :
            IsAppended(newTree, oldTree, p, c)
              => BriefList(mutations)
                   = << <<"Remove", p, c, Len(newTree[p].children)>>,
                        <<"Delete", DefaultShadowView.tag, c, -1>> >>

\* a returned list, some of it pruned, with a Create and an Insert for one tag
\* and a Remove and a Delete for one tag
C18_Witness ==
  /\ pc = "mounting" /\ enabled /\ Len(mutations) < Len(raw)
  /\ \E t \in AllTags : Has(mutations, "Create", t) /\ Has(mutations, "Insert", t)
  /\ \E t \in AllTags : Has(mutations, "Remove", t) /\ Has(mutations, "Delete", t)

\* the node forms a view and no stacking context
ViewOnly(tree, t) ==
  "FormsView" \in tree[t].traits /\ "FormsStackingContext" \notin tree[t].traits

\* the node is not Hidden and forms a view or a stacking context
Listable(tree, t) ==
  "Hidden" \notin tree[t].traits /\ tree[t].traits \cap ViewTraits # {}

\* the tags of the flattened child list of a node of the old tree
FlattenedTags(t) == TagsOf(sliceChildShadowNodeViewPairs(OldNode(t)))

\* the nodes whose child lists the recursive walk flattens, from t down
RECURSIVE WalkedFrom(_)
WalkedFrom(t) == {t} \cup UNION {WalkedFrom(c) : c \in Range(FlattenedTags(t))}

\* the places of a tag in the flattened lists of the walk
PlacesInWalk(x) ==
  {place \in WalkedFrom(RootTag) \X (1..Cardinality(DOMAIN oldTree)) :
     /\ place[2] <= Len(FlattenedTags(place[1]))
     /\ FlattenedTags(place[1])[place[2]] = x}

(* C19: sliceChildShadowNodeViewPairs returns an empty list for a node that
   forms a view and no stacking context, whatever its children; the children
   of such a node are in the flattened list that has the node itself, the
   list of its nearest enclosing stacking context or non-view node; and every
   node outside the Hidden subtrees that forms a view or a stacking context
   is at exactly one place of the flattened lists of the recursive walk. *)
C19_ViewOnlyNodesFlattenedIntoAncestor ==
  /\ \A t \in DOMAIN oldTree :
       ViewOnly(oldTree, t) => sliceChildShadowNodeViewPairs(OldNode(t)) = <<>>
  /\ \A s \in DOMAIN oldTree : \A v \in Range(FlattenedTags(s)) :
       ViewOnly(oldTree, v)
         => \A c \in Range(oldTree[v].children) :
              Listable(oldTree, c) => c \in Range(FlattenedTags(s))
  /\ \A x \in DOMAIN oldTree \ ({RootTag} \cup HiddenSubtrees(oldTree)) :
       Listable(oldTree, x) => Cardinality(PlacesInWalk(x)) = 1

\* a returned diff of a tree in which a node that forms a view and no stacking
\* context has a view child and lies under a stacking context other than the
\* root
C19_Witness ==
  /\ pc = "mounting"
  /\ \E s \in DOMAIN oldTree \ {RootTag} : \E v \in Range(FlattenedTags(s)) :
       /\ ViewOnly(oldTree, v)
       /\ \E c \in Range(oldTree[v].children) : Listable(oldTree, c)
       /\ s \in WalkedFrom(RootTag)

RECURSIVE PreOrder(_, _)
RECURSIVE PreOrderOfAll(_, _)

\* the tags of the subtree of t in pre-order, children in source order
PreOrder(tree, t) == <<t>> \o PreOrderOfAll(tree, tree[t].children)

PreOrderOfAll(tree, ts) ==
  IF ts = <<>> THEN <<>> ELSE PreOrder(tree, Head(ts)) \o PreOrderOfAll(tree, Tail(ts))

\* the nodes on the path from t to its descendant c, the two excluded
Between(tree, t, c) == {a \in SubtreeTags(tree, t) \ {t, c} : c \in SubtreeTags(tree, a)}

\* c is listable and no node between t and c is Hidden or a stacking context
ReachableListable(tree, t, c) ==
  /\ Listable(tree, c)
  /\ \A a \in Between(tree, t, c) :
       "Hidden" \notin tree[a].traits /\ "FormsStackingContext" \notin tree[a].traits

ExpectedFlattened(tree, t) ==
  SelectSeq(Tail(PreOrder(tree, t)), LAMBDA c : ReachableListable(tree, t, c))

\* the list the recursive flattener builds for a node of the old tree
FlattenedBelow(t) == sliceChildShadowNodeViewPairsRecursively(<<>>, <<0, 0>>, OldNode(t), 1)

(* C20: the list the flattener builds for a node has, in pre-order of the
   node's subtree and in source child order, exactly the descendants that are
   not Hidden, form a view or a stacking context, and are reached from the
   node through no stacking context and no Hidden node; each pair points to
   the node of its view. *)
C20_FlattenedListContents ==
  \A t \in DOMAIN oldTree :
    /\ TagsOf(FlattenedBelow(t)) = ExpectedFlattened(oldTree, t)
    /\ \A i \in 1..Len(FlattenedBelow(t)) :
         FlattenedBelow(t)[i].shadowNode = OldNode(FlattenedBelow(t)[i].shadowView.tag)

\* a returned diff of a tree with a node whose list has a descendant reached
\* through a node that forms no view, leaves out a listable descendant below
\* a stacking context, and leaves out a Hidden child
C20_Witness ==
  /\ pc = "mounting"
  /\ \E t \in DOMAIN oldTree :
       /\ \E c \in Range(TagsOf(FlattenedBelow(t))) :
            \E a \in Between(oldTree, t, c) : oldTree[a].traits = {}
       /\ \E c \in SubtreeTags(oldTree, t) :
            /\ Listable(oldTree, c) /\ c \notin Range(TagsOf(FlattenedBelow(t)))
            /\ \E a \in Between(oldTree, t, c) : "FormsStackingContext" \in oldTree[a].traits
       /\ \E c \in Range(oldTree[t].children) : "Hidden" \in oldTree[c].traits

RECURSIVE SumOfOrigins(_, _)

SumOfOriginsFrom(tree, S, a) ==
  PointAdd(tree[a].layoutMetrics.origin, SumOfOrigins(tree, S \ {a}))

\* the sum of the frame origins of the nodes of S
SumOfOrigins(tree, S) ==
  IF S = {} THEN <<0, 0>> ELSE SumOfOriginsFrom(tree, S, CHOOSE a \in S : TRUE)

\* the nodes between t and c whose layout metrics are not empty
OffsettingBetween(tree, t, c) ==
  {a \in Between(tree, t, c) : tree[a].layoutMetrics # EmptyLayoutMetrics}

\* the view of a pair of the list of t as the claim states it
ExpectedPairView(tree, t, c) ==
  IF tree[c].layoutMetrics = EmptyLayoutMetrics
  THEN [tag |-> c, props |-> tree[c].props, layoutMetrics |-> EmptyLayoutMetrics]
  ELSE [tag |-> c, props |-> tree[c].props,
        layoutMetrics |->
          [tree[c].layoutMetrics EXCEPT
             !.origin = PointAdd(@, SumOfOrigins(tree, OffsettingBetween(tree, t, c)))]]

(* C21: in the list the flattener builds for a node, the view of a pair whose
   node has layout metrics has the node's own frame origin plus the origins of
   the nodes between the flattening root and the node that have layout
   metrics, pushed as views or not; the view of a pair whose node has
   EmptyLayoutMetrics has EmptyLayoutMetrics, and such a node adds nothing to
   the offset of the nodes below it. *)
C21_OriginsAccumulate ==
  \A t \in DOMAIN oldTree : \A i \in 1..Len(FlattenedBelow(t)) :
    FlattenedBelow(t)[i].shadowView
      = ExpectedPairView(oldTree, t, FlattenedBelow(t)[i].shadowView.tag)

\* a returned diff of a tree in which a pair with layout metrics lies below a
\* node without a view that has layout metrics and below a pushed node with
\* EmptyLayoutMetrics
C21_Witness ==
  /\ pc = "mounting"
  /\ \E c \in Range(TagsOf(FlattenedBelow(RootTag))) :
       /\ oldTree[c].layoutMetrics # EmptyLayoutMetrics
       /\ \E a \in Between(oldTree, RootTag, c) :
            oldTree[a].traits = {} /\ oldTree[a].layoutMetrics # EmptyLayoutMetrics
       /\ \E a \in Between(oldTree, RootTag, c) :
            /\ oldTree[a].layoutMetrics = EmptyLayoutMetrics
            /\ a \in Range(TagsOf(FlattenedBelow(RootTag)))

\* the pairs of the backing vector whose key is not zeroed, in order
LiveOf(m) == SelectSeq(m.vector, LAMBDA item : item.first # 0)

\* find returned the iterator of the live pair with the key, or end()
FoundAsStated ==
  IF PlaceOfKey(live, call.key) # 0
  THEN /\ call.it # TinyMap_end(tinyMap)
       /\ call.it \in 1..Len(tinyMap.vector)
       /\ tinyMap.vector[call.it] = live[PlaceOfKey(live, call.key)]
  ELSE call.it = TinyMap_end(tinyMap)

\* erase zeroed the key of the pair find had returned and of no other
ErasedAsStated ==
  /\ call.before.vector[call.it].first = call.key
  /\ tinyMap.vector = [call.before.vector EXCEPT ![call.it].first = 0]
  /\ LiveOf(tinyMap) = live

(* C22: after any sequence of insert, find and erase with non-zero keys in
   which no key is inserted while it is live, find(k) returns the iterator of
   the pair with the value k was last inserted with if k was inserted and not
   erased since, and end() otherwise; erase on the iterator find has just
   returned erases that pair and no other. *)
C22_FindAndErase ==
  /\ call.op = "find" => FoundAsStated
  /\ call.op = "erase" => ErasedAsStated

\* find returns a pair that lies behind an erased pair with another value
C22_Witness ==
  /\ call.op = "find"
  /\ call.it # TinyMap_end(tinyMap)
  /\ \E i \in 1..(call.it - 1) :
       /\ tinyMap.vector[i].first = 0
       /\ tinyMap.vector[i].second # tinyMap.vector[call.it].second

\* the pairs a loop from iterator it to end() visits
RECURSIVE VisitedFrom(_, _)
VisitedFrom(m, it) ==
  IF it = TinyMap_end(m) THEN <<>>
  ELSE <<m.vector[it]>> \o VisitedFrom(m, it + 1)

(* C23: a loop from begin() to end() visits the live pairs and no others,
   never a pair whose key is 0, each once and in insertion order; when the map
   is empty or every pair is erased, begin() equals end(). *)
C23_IterationVisitsLivePairs ==
  call.op = "begin" =>
    /\ VisitedFrom(tinyMap, call.it) = live
    /\ live = <<>> => call.it = TinyMap_end(tinyMap)

\* begin() on a map with an erased pair behind a live one and a live pair
\* behind it
C23_Witness ==
  /\ call.op = "begin"
  /\ Len(live) >= 2
  /\ \E i, j, k \in 1..Len(call.before.vector) :
       /\ i < j /\ j < k
       /\ call.before.vector[i].first # 0
       /\ call.before.vector[j].first = 0
       /\ call.before.vector[k].first # 0

\* no pair of the backing vector has a zeroed key
NoZeroed(m) == \A i \in 1..Len(m.vector) : m.vector[i].first # 0

\* the erased pairs of the vector are not its first pairs
ErasedBehindLive(m) ==
  \E i, j \in 1..Len(m.vector) :
    i < j /\ m.vector[i].first # 0 /\ m.vector[j].first = 0

\* the map with the zeroed pairs removed and both counters reset
Compacted(m) == [vector |-> LiveOf(m), numErased |-> 0, erasedAtFront |-> 0]

\* the last call removed pairs from the backing vector
HasCompacted == Len(tinyMap.vector) < Len(call.before.vector)

\* after a compaction both counters are 0 and the vector holds the live pairs
\* in their order
CompactionAsStated ==
  HasCompacted =>
    /\ tinyMap.numErased = 0
    /\ tinyMap.erasedAtFront = 0
    /\ tinyMap.vector = live

\* begin() compacts when the erased pairs are not all the first pairs
BeginCompactsAsStated ==
  call.op = "begin" /\ ErasedBehindLive(call.before) => NoZeroed(tinyMap)

(* C24 as stated: the zeroed pairs are removed whenever, at a find call, the
   erased count is at least half the size of the backing vector, and whenever
   begin() is called while the erased pairs are not all contiguous at the
   front; after a compaction both counters are 0 and the vector holds the
   live pairs in their order. *)
C24_CompactsAtHalfErased ==
  /\ call.op = "find" /\ 2 * call.before.numErased >= Len(call.before.vector)
       => NoZeroed(tinyMap)
  /\ BeginCompactsAsStated
  /\ CompactionAsStated

(* C24 amended: a find call compacts exactly when the erased count is at
   least half the size of the backing vector, rounded down, and differs from
   the count of pairs erased at the front; begin() compacts exactly when the
   two counts differ, which they do whenever an erased pair lies behind a live
   one; any other call leaves the vector as it is. After a compaction both
   counters are 0 and the vector holds the live pairs in their order. *)
C24_CompactsUnlessErasedAtFront ==
  /\ call.op = "find" =>
       tinyMap = IF /\ call.before.numErased >= Len(call.before.vector) \div 2
                    /\ call.before.numErased # call.before.erasedAtFront
                 THEN Compacted(call.before) ELSE call.before
  /\ call.op = "begin" =>
       tinyMap = IF call.before.numErased # call.before.erasedAtFront
                 THEN Compacted(call.before) ELSE call.before
  /\ BeginCompactsAsStated
  /\ CompactionAsStated

\* a find call that compacted a vector with more live than erased pairs
C24_Witness ==
  /\ call.op = "find"
  /\ HasCompacted
  /\ 2 * call.before.numErased < Len(call.before.vector)
  /\ live # <<>>

\* the answer "emit both, no node" that leaves the metadata m as it is
EmitBoth(m) == [meta |-> m, r |-> <<TRUE, TRUE, NullNode>>]

\* every decision call on the metadata m answers "emit", returns no node and
\* leaves m as it is
CallsAreInert(m) ==
  \A parentTag \in AllTags, tag \in AllTags, index \in 0..MaxTag :
    /\ shouldRemoveDeleteUpdate(m, parentTag, OldNode(tag), index) = EmitBoth(m)
    /\ shouldCreateInsertUpdate(m, parentTag, NewNode(tag), index) = EmitBoth(m)
    /\ shouldCreateUpdate(m, NewNode(tag)) = [meta |-> m, r |-> <<TRUE, NullNode>>]
    /\ markInserted(m, parentTag, NewNode(tag), index) = m

(* C25: with reparenting detection disabled, shouldRemoveDeleteUpdate and
   shouldCreateInsertUpdate answer (true, true, null), shouldCreateUpdate
   answers (true, null), markInserted does nothing, the side-table stays empty
   and reparentingOperations_ stays 0 through the whole invocation, and the
   pruning pass removes nothing from the mutation list. *)
C25_DisabledDetectionIsInert ==
  ~enabled =>
    /\ DOMAIN meta.tagsToOperations_ = {}
    /\ meta.reparentingOperations_ = 0
    /\ ~meta.ub
    /\ CallsAreInert(meta)
    /\ mutations = raw

\* a returned list of a diff without detection in which a view is deleted and
\* created again and pairs are reordered
C25_Witness ==
  /\ ~enabled
  /\ pc = "mounting"
  /\ \E i, j \in 1..Len(mutations) :
       /\ mutations[i].type = "Delete"
       /\ mutations[j].type = "Create"
       /\ ViewTag(mutations[i]) = ViewTag(mutations[j])
  /\ \E i, j \in 1..Len(mutations) :
       /\ mutations[i].type = "Remove"
       /\ mutations[j].type = "Insert"
       /\ ViewTag(mutations[i]) = ViewTag(mutations[j])
       /\ mutations[i].parentShadowView.tag = mutations[j].parentShadowView.tag

\* the tags of a list of views
TagsIn(views) == {views[i].tag : i \in 1..Len(views)}

\* the view with the tag in a list of views
ViewIn(views, tag) == views[CHOOSE i \in 1..Len(views) : views[i].tag = tag]

\* the places in the list of the Updates of the tag
UpdatesOf(list, tag) ==
  {i \in 1..Len(list) :
     list[i].type = "Update" /\ list[i].oldChildShadowView.tag = tag}

\* the Update at place i was pushed by activation id for the parent and
\* carries the two views
IsUpdateOfActivation(mutation, id, parentTag, oldView, newView) ==
  /\ mutation.path # <<>>
  /\ mutation.path[Len(mutation.path)] = [activation |-> id, bucket |-> "update"]
  /\ mutation.parentShadowView.tag = parentTag
  /\ mutation.oldChildShadowView = oldView
  /\ mutation.newChildShadowView = newView

\* the "Update subtrees" recursions of activation id into the pair with the tag
RecursionsInto(id, tag) ==
  {j \in 1..Len(meta.recursions) :
     meta.recursions[j] = [activation |-> id, tag |-> tag]}

\* one Update with the two views if they differ, none if they are equal, and
\* one recursion
MatchedAsStated(id, parentTag, tag, oldView, newView) ==
  /\ Cardinality(UpdatesOf(mutations, tag)) = IF oldView # newView THEN 1 ELSE 0
  /\ \A i \in UpdatesOf(mutations, tag) :
       IsUpdateOfActivation(mutations[i], id, parentTag, oldView, newView)
  /\ Cardinality(RecursionsInto(id, tag)) = 1

(* C26: every tag that is in both sorted lists of an activation, whichever of
   the prefix scan, the aligned match and the already-inserted branch matches
   it, gets one Update with its old and its new view if the two views differ
   and none if they are equal, and the differ recurses into the children of
   the pair once. *)
C26_MatchedPairsUpdatedOnce ==
  pc \in {"diffed", "mounting"} =>
    \A k \in 1..Len(meta.activations) :
      \A tag \in TagsIn(meta.activations[k].old) \cap TagsIn(meta.activations[k].new) :
        MatchedAsStated(k - 1, meta.activations[k].parent, tag,
                        ViewIn(meta.activations[k].old, tag),
                        ViewIn(meta.activations[k].new, tag))

\* both sorted lists of an activation hold the tag at place i and the tag at
\* place j
BothPlaced(old, new, i, j) ==
  /\ i \in 1..Len(old) /\ j \in 1..Len(new)
  /\ old[i].tag = new[j].tag

\* a returned diff with an activation that matches a changed view at the same
\* place of both lists, an unchanged view further back in the new list and
\* one further back in the old list
C26_Witness ==
  /\ pc = "mounting"
  /\ \E k \in 1..Len(meta.activations) :
       /\ \E i \in 1..Len(meta.activations[k].old) :
            /\ BothPlaced(meta.activations[k].old, meta.activations[k].new, i, i)
            /\ meta.activations[k].old[i] # meta.activations[k].new[i]
       /\ \E i, j \in 1..MaxTag :
            /\ i < j
            /\ BothPlaced(meta.activations[k].old, meta.activations[k].new, i, j)
       /\ \E i, j \in 1..MaxTag :
            /\ i > j
            /\ BothPlaced(meta.activations[k].old, meta.activations[k].new, i, j)

\* how many mutations of the type the returned list has for the tag
CountOf(type, tag) ==
  Cardinality({i \in 1..Len(mutations) :
                 mutations[i].type = type /\ ViewTag(mutations[i]) = tag})

\* the tag has these numbers of Removes, Deletes, Creates and Inserts
HasCounts(tag, removes, deletes, creates, inserts) ==
  /\ CountOf("Remove", tag) = removes
  /\ CountOf("Delete", tag) = deletes
  /\ CountOf("Create", tag) = creates
  /\ CountOf("Insert", tag) = inserts

\* views of the old tree that the new tree does not have, and the converse
OnlyOld == OldHost.registered \ NewHost.registered
OnlyNew == NewHost.registered \ OldHost.registered

\* the views other than the root that have the same parent in both trees
SameParent == (Survivors \ Moved) \ {RootTag}

\* the views that have the same parent in both trees, as has the parent, and
\* so on up to the root
RECURSIVE Settled(_)
Settled(tag) ==
  \/ tag = RootTag
  \/ /\ tag \in Survivors \ Moved
     /\ \A p \in ParentsOf(OldHost, tag) : Settled(p)

\* one Remove and one Delete for each view only the old tree has, one Create
\* and one Insert for each view only the new tree has
OneSidedAsStated ==
  /\ \A tag \in OnlyOld : HasCounts(tag, 1, 1, 0, 0)
  /\ \A tag \in OnlyNew : HasCounts(tag, 0, 0, 1, 1)

(* C27 as stated: in the list returned with reparenting detection disabled, a tag of the old
   flattened view tree that the new one does not have gets one Remove and one
   Delete, a tag of the new one that the old one does not have gets one Create
   and one Insert, and a tag that stays under the same parent gets neither a
   Create nor a Delete. *)
C27_SameParentNeverRecreated ==
  ~enabled /\ pc = "mounting" /\ applied = 0 =>
    /\ OneSidedAsStated
    /\ \A tag \in SameParent :
         CountOf("Create", tag) = 0 /\ CountOf("Delete", tag) = 0

(* C27 amended: in the list returned with reparenting detection disabled, a tag only the old tree
   has gets one Remove and one Delete, a tag only the new tree has gets one
   Create and one Insert, a tag that has the same parent in both trees, as
   have all its ancestors, gets neither a Create nor a Delete, and any other
   tag of both trees gets one Remove, one Delete, one Create and one Insert,
   also when its own parent is the same in both trees. *)
C27_SettledNeverRecreated ==
  ~enabled /\ pc = "mounting" /\ applied = 0 =>
    /\ OneSidedAsStated
    /\ \A tag \in Survivors :
         IF Settled(tag)
         THEN CountOf("Create", tag) = 0 /\ CountOf("Delete", tag) = 0
         ELSE HasCounts(tag, 1, 1, 1, 1)

\* a returned diff without detection of trees with a view that only one of
\* them has and a view that stays under a parent that moves
C27_Witness ==
  /\ ~enabled
  /\ pc = "mounting"
  /\ applied = 0
  /\ OnlyOld \cup OnlyNew # {}
  /\ \E tag \in SameParent : ~Settled(tag)

\* the last call was op on a tag the metadata had no record of
IsFirstSighting(op) ==
  /\ enabled
  /\ call.op = op
  /\ call.tag \notin DOMAIN call.before.tagsToOperations_

\* the last call was op on a tag whose record had these operations and
\* nothing marked for erasure
IsSightingAfter(op, opExists) ==
  /\ enabled
  /\ call.op = op
  /\ call.tag \in DOMAIN call.before.tagsToOperations_
  /\ call.before.tagsToOperations_[call.tag].opExists = opExists
  /\ call.before.tagsToOperations_[call.tag].shouldEraseOp = {}

\* the last call was made under the parent and at the index of the record
AtRecordedSpot(rec) ==
  call.parentTag = rec.parentTag /\ call.index = rec.removeInsertIndex

\* the first sighting by shouldRemoveDeleteUpdate records Remove and Delete,
\* the node, the index and the parent, and answers (true, true, null)
FirstRemoveDeleteAsStated ==
  /\ call.r = <<TRUE, TRUE, NullNode>>
  /\ meta.tagsToOperations_[call.tag] =
       [shouldEraseOp |-> {}, opExists |-> {"Remove", "Delete"},
        removeInsertIndex |-> call.index, parentTag |-> call.parentTag,
        oldNode |-> OldNode(call.tag), newNode |-> NullNode]

\* the answer of shouldCreateInsertUpdate on the record rec of such a first
\* sighting, and what it marks
CreateInsertAfterAsStated(rec) ==
  /\ call.r = <<~AtRecordedSpot(rec), FALSE, rec.oldNode>>
  /\ rec.oldNode = OldNode(call.tag)
  /\ meta.tagsToOperations_[call.tag] =
       [rec EXCEPT !.shouldEraseOp =
          IF AtRecordedSpot(rec) THEN {"Delete", "Remove"} ELSE {"Delete"}]

(* C28: with detection enabled, shouldRemoveDeleteUpdate(p, n, i) on a tag
   without a record records Remove|Delete, the old node, the index and the
   parent and answers (true, true, null); a later shouldCreateInsertUpdate(p',
   n', i') on that record answers emitCreate = false and the recorded old
   node and marks Delete for erasure, and it answers emitInsert = false and
   marks Remove exactly when p' = p and i' = i; otherwise emitInsert is true
   and Remove stays unmarked. *)
C28_RemoveThenCreate ==
  /\ IsFirstSighting("shouldRemoveDeleteUpdate") => FirstRemoveDeleteAsStated
  /\ IsSightingAfter("shouldCreateInsertUpdate", {"Remove", "Delete"}) =>
       CreateInsertAfterAsStated(call.before.tagsToOperations_[call.tag])

\* shouldCreateInsertUpdate under the parent and at the index of the Remove
\* that was seen first
C28_Witness ==
  /\ IsSightingAfter("shouldCreateInsertUpdate", {"Remove", "Delete"})
  /\ call.before.tagsToOperations_[call.tag].parentTag = call.parentTag
  /\ call.parentTag # -1
  /\ call.r[1] = FALSE

\* the last call came right after the first sighting of its tag by op
IsRightAfterFirst(op) ==
  /\ call.previous.op = op
  /\ call.previous.first
  /\ call.previous.tag = call.tag

\* the last call was made under the parent and at the index of the call
\* before it
AtPreviousSpot ==
  call.parentTag = call.previous.parentTag /\ call.index = call.previous.index

(* C29: with detection enabled, after shouldCreateInsertUpdate(p, n, i) on a
   tag without a record, shouldRemoveDeleteUpdate(p, n', i) under the same
   parent and at the same index answers emitRemove = false, emitDelete = false
   and the recorded new node and marks Create and Insert for erasure; under
   another parent or at another index it answers emitRemove = true and marks
   only Create. *)
C29_CreateThenRemove ==
  enabled /\ call.op = "shouldRemoveDeleteUpdate"
    /\ IsRightAfterFirst("shouldCreateInsertUpdate") =>
      /\ call.r = <<~AtPreviousSpot, FALSE, NewNode(call.tag)>>
      /\ meta.tagsToOperations_[call.tag].shouldEraseOp =
           IF AtPreviousSpot THEN {"Create", "Insert"} ELSE {"Create"}

(* C30: with detection enabled, markInserted on a tag without a record leaves
   a record whose opExists has Insert and whose removeInsertIndex and
   parentTag are the given ones; on a tag with a record it adds the Insert bit
   and changes nothing else. *)
C30_MarkInsertedRecordsInsert ==
  /\ IsFirstSighting("markInserted") =>
       /\ call.tag \in DOMAIN meta.tagsToOperations_
       /\ "Insert" \in meta.tagsToOperations_[call.tag].opExists
       /\ meta.tagsToOperations_[call.tag].removeInsertIndex = call.index
       /\ meta.tagsToOperations_[call.tag].parentTag = call.parentTag
  /\ enabled /\ call.op = "markInserted"
       /\ call.tag \in DOMAIN call.before.tagsToOperations_ =>
         meta.tagsToOperations_[call.tag] =
           [call.before.tagsToOperations_[call.tag] EXCEPT !.opExists = @ \cup {"Insert"}]

\* the tags of a list of views, in order
TagSeq(views) == [i \in 1..Len(views) |-> views[i].tag]

\* the first list is the beginning of the second
IsPrefix(s, t) == Len(s) <= Len(t) /\ SubSeq(t, 1, Len(s)) = s

\* the tags the create sweep of the activation visits: the ones the
\* interleaved walk inserted and did not match with an old pair afterwards
SweptTags(activation) ==
  IF IsPrefix(TagSeq(activation.old), TagSeq(activation.new)) THEN {}
  ELSE TagsIn(activation.new) \ TagsIn(activation.old)

\* shouldCreateUpdate on the record rec of the metadata m, as the claim
\* states it
CreateUpdateAsStated(m, tag, rec) ==
  IF "Delete" \in rec.opExists
  THEN /\ shouldCreateUpdate(m, NewNode(tag)).r = <<FALSE, rec.oldNode>>
       /\ "Delete" \in
            shouldCreateUpdate(m, NewNode(tag)).meta.tagsToOperations_[tag].shouldEraseOp
  ELSE /\ shouldCreateUpdate(m, NewNode(tag)).r = <<TRUE, NullNode>>
       /\ "Create" \in
            shouldCreateUpdate(m, NewNode(tag)).meta.tagsToOperations_[tag].opExists

(* C31: with detection enabled, shouldCreateUpdate on a tag with a record
   answers (false, the recorded old node) and marks Delete for erasure if the
   record has a Delete, and otherwise records Create and answers (true, null);
   and a tag that the create sweep of an interleaved walk visits and whose old
   view is torn down in the same invocation has no Create in the returned
   list. *)
C31_SweptSurvivorsNotCreated ==
  enabled /\ pc = "mounting" /\ applied = 0 =>
    /\ \A tag \in DOMAIN meta.tagsToOperations_ :
         CreateUpdateAsStated(meta, tag, meta.tagsToOperations_[tag])
    /\ \A k \in 1..Len(meta.activations) :
         \A tag \in SweptTags(meta.activations[k]) \cap Survivors :
           CountOf("Create", tag) = 0

\* how many mutations of the type the list has for the tag
CountIn(list, type, tag) == Cardinality(Positions(list, type, tag))

\* the type is marked for erasure in the record of the tag
IsMarked(m, type, tag) ==
  tag \in DOMAIN m.tagsToOperations_ /\ type \in m.tagsToOperations_[tag].shouldEraseOp

\* the records with something marked for erasure
MarkedRecords(m) ==
  {tag \in DOMAIN m.tagsToOperations_ : m.tagsToOperations_[tag].shouldEraseOp # {}}

\* the pass that turns the list and the metadata m into p removes one
\* mutation for each marked type of each tag and no other, keeps the order of
\* the others, starts with the counter at the number of records with a mark
\* and ends with the counter at 0 and no record
PrunedAsStated(m, list, p) ==
  /\ \A tag \in AllTags : \A type \in {"Create", "Delete", "Insert", "Remove", "Update"} :
       CountIn(p.mutations, type, tag)
         = CountIn(list, type, tag) - (IF IsMarked(m, type, tag) THEN 1 ELSE 0)
  /\ IsSubsequence(p.mutations, list)
  /\ m.reparentingOperations_ = Cardinality(MarkedRecords(m))
  /\ p.meta.reparentingOperations_ = 0
  /\ DOMAIN p.meta.tagsToOperations_ = {}

(* C32: the pruning pass removes from the list one mutation for each tag and
   type that is marked in a record's shouldEraseOp when the recursive diff
   returns, and no other mutation; the others keep their order;
   reparentingOperations_ is the number of records with a mark when the pass
   starts; when the pass ends the counter is 0 and the side-table is empty. *)
C32_PruningRemovesTheMarked ==
  enabled /\ pc = "diffed" /\ meta.reparentingOperations_ > 0 =>
    PrunedAsStated(meta, mutations, PruningPass(meta, mutations, enabled))

(* C33: with detection enabled, no assert of a decision call fails during a
   diff: at every second sighting by shouldRemoveDeleteUpdate or
   shouldCreateInsertUpdate the shouldEraseOp of the record is 0, and at every
   call of shouldCreateUpdate the side-table has a record of the tag. *)
C33_AssertsHold == enabled => ~meta.assertFailed

\* the diff has returned with a record that shouldCreateUpdate found without
\* a Delete, a record that a second sighting by shouldRemoveDeleteUpdate
\* marked, and a record that a second sighting by shouldCreateInsertUpdate
\* marked
C33_Witness ==
  /\ enabled
  /\ pc = "diffed"
  /\ \E tag \in DOMAIN meta.tagsToOperations_ :
       meta.tagsToOperations_[tag].opExists = {"Create"}
  /\ \E tag \in DOMAIN meta.tagsToOperations_ :
       /\ "Create" \in meta.tagsToOperations_[tag].shouldEraseOp
       /\ "Insert" \in meta.tagsToOperations_[tag].opExists
  /\ \E tag \in DOMAIN meta.tagsToOperations_ :
       /\ "Delete" \in meta.tagsToOperations_[tag].shouldEraseOp
       /\ meta.tagsToOperations_[tag].newNode = NullNode

\* the cursors stay within the two lists and the walk ends at their ends
CursorsInRange(trail, old, new) ==
  /\ \A i \in 1..Len(trail) :
       trail[i][1] \in 0..Len(old) /\ trail[i][2] \in 0..Len(new)
  /\ trail[Len(trail)] = <<Len(old), Len(new)>>

\* no cursor goes back and every iteration advances one of them
CursorsAdvance(trail) ==
  \A i \in 1..(Len(trail) - 1) :
    /\ trail[i + 1][1] >= trail[i][1]
    /\ trail[i + 1][2] >= trail[i][2]
    /\ trail[i + 1][1] + trail[i + 1][2] > trail[i][1] + trail[i][2]

\* a walk that starts with both cursors at k makes at most
\* (|old| - k) + (|new| - k) iterations
WalkIsBounded(trail, old, new) ==
  /\ trail[1][1] = trail[1][2]
  /\ Len(trail) - 1 <= (Len(old) - trail[1][1]) + (Len(new) - trail[1][1])

WalkAsStated(trail, activation) ==
  /\ CursorsInRange(trail, activation.old, activation.new)
  /\ CursorsAdvance(trail)
  /\ WalkIsBounded(trail, activation.old, activation.new)

(* C34: in the interleaved walk the default insert branch is reached only
   with the new cursor in range, so newChildPairs[newIndex] is never read past
   the end: with the new list exhausted, the old pairs left are handled by
   the already-inserted and the disappearance branch; every iteration
   advances a cursor, and the walk ends after at most (|old| - k) + (|new| -
   k) iterations. *)
C34_WalkStaysInRange ==
  /\ ~meta.outOfBounds
  /\ \A j \in 1..Len(meta.walks) :
       WalkAsStated(meta.walks[j].trail,
                    meta.activations[meta.walks[j].activation + 1])

\* a walk that makes two more iterations after the new list is exhausted
C34_Witness ==
  \E j \in 1..Len(meta.walks) :
    \E i \in 1..(Len(meta.walks[j].trail) - 2) :
      /\ meta.walks[j].trail[i][2]
           = Len(meta.activations[meta.walks[j].activation + 1].new)
      /\ meta.walks[j].trail[i + 2][1] = meta.walks[j].trail[i][1] + 2


\* the number of places tag takes in the child vectors of the host
PlacesOf(h, tag) ==
  Cardinality({pl \in AllTags \X (1..Cardinality(AllTags) * 2) :
                 /\ pl[2] <= Len(h.children[pl[1]])
                 /\ h.children[pl[1]][pl[2]] = tag})

(* C35: while the returned list is applied in order, no view is a child of
   two parents or twice a child of one parent: every Insert and every Delete
   of a tag is applied when the tag is attached to no parent, for both flag
   values and for nodes that move between parents. *)
C35_OneParentAtATime ==
  /\ "InsertAttached" \notin flaws
  /\ "DeleteAttached" \notin flaws
  /\ pc = "mounting" => \A tag \in AllTags : PlacesOf(host, tag) <= 1

====
